---- MODULE Spec2Model ----
(***************************************************************************)
(* A model of the island generator (Landmass / Terrain / HeightMap /       *)
(* erosion passes / shoreline extraction) and of click placement.          *)
(*                                                                         *)
(* Numbers.  The program computes in IEEE doubles.  Here every real is an  *)
(* integer count of ten-thousandths (U per unit), and every product or     *)
(* quotient is rounded to the nearest ten-thousandth right after it is     *)
(* taken, the way a double is rounded after every operation.  Math.cos is  *)
(* replaced by a rational approximation that is exact at 0, 1/2 and 1      *)
(* (CosPi), Math.sqrt by the integer square root; x ** p is taken for p a  *)
(* multiple of 1/2.  The 32-bit state of Random is kept exactly, in two    *)
(* 16-bit limbs.                                                           *)
(***************************************************************************)
EXTENDS Integers, Sequences, FiniteSets, TLC

\* ----------------------------------------------------------------- numbers

U == 10 * 10 * 10 * 10

Abs(a) == IF a < 0 THEN -a ELSE a
Min(a, b) == IF a < b THEN a ELSE b
Max(a, b) == IF a > b THEN a ELSE b

\* a / b rounded to the nearest integer (b > 0)
RoundDiv(a, b) == (2 * a + b) \div (2 * b)

\* a * b on ten-thousandths, rounded to nearest; the operands are split so
\* that no partial product leaves 32 bits
Fmul(a, b) ==
    LET aq == a \div U
        ar == a % U
        bq == b \div U
        br == b % U
    IN  aq * bq * U + aq * br + ar * bq + RoundDiv(ar * br, U)

RECURSIVE FracDiv(_, _, _)
\* round(r * 10^k / b) for 0 <= r < b, one decimal digit at a time
FracDiv(r, b, k) ==
    IF k = 0 THEN (IF 2 * r >= b THEN 1 ELSE 0)
    ELSE LET t == r * 10
         IN  (t \div b) * (10 ^ (k - 1)) + FracDiv(t % b, b, k - 1)

\* a / b on ten-thousandths, rounded to nearest (b # 0)
FdivPos(a, b) == (a \div b) * U + FracDiv(a % b, b, 4)
Fdiv(a, b) == IF b > 0 THEN FdivPos(a, b) ELSE FdivPos(-a, -b)

\* Math.floor and Math.ceil of a value, as a whole number
Floor(a) == a \div U
Ceil(a) == -((-a) \div U)
\* Math.round of a value, as a whole number
Round(a) == (2 * a + U) \div (2 * U)

RECURSIVE SqrtIter(_, _, _)
SqrtIter(n, lo, hi) ==
    IF hi - lo <= 1 THEN lo
    ELSE LET mid == (lo + hi) \div 2
         IN  IF mid * mid <= n THEN SqrtIter(n, mid, hi) ELSE SqrtIter(n, lo, mid)

\* floor(sqrt(n)) for 0 <= n < 2^31
Isqrt(n) == IF n <= 0 THEN 0 ELSE SqrtIter(n, 0, 46341)

\* Math.sqrt of a value (0 <= a < 20 units)
Fsqrt(a) == Isqrt(a * U)

RECURSIVE FpowInt(_, _)
FpowInt(a, k) == IF k = 0 THEN U ELSE Fmul(FpowInt(a, k - 1), a)

\* a ** p for p a multiple of one half, given as twice p (a >= 0 when p is odd)
Fpow(a, twiceP) ==
    IF twiceP % 2 = 0 THEN FpowInt(a, twiceP \div 2)
    ELSE Fmul(FpowInt(a, twiceP \div 2), Fsqrt(a))

\* Math.cos(Math.PI * t) for t in [0, 1]: (1 - 4t^2) / (1 + t^2) on [0, 1/2],
\* mirrored on [1/2, 1]; exact at t = 0, 1/2, 1
CosPiLow(t) == Fdiv(U - 4 * Fmul(t, t), U + Fmul(t, t))
CosPi(t) == IF 2 * t <= U THEN CosPiLow(t) ELSE -CosPiLow(U - t)

\* ------------------------------------------------------------------ Random

Limb == 2 ^ 16
MULTIPLIER == 69069
INCREMENT == 1

\* new Random(seed): this.n = seed >>> 0, held as n = hi * 2^16 + lo
NewRandom(seed) == [hi |-> (seed \div Limb) % Limb, lo |-> seed % Limb]

\* this.n = (MULTIPLIER * this.n + INCREMENT) % MODULUS, MODULUS = 2^32
RandomStep(r) ==
    LET ml == MULTIPLIER % Limb
        mh == MULTIPLIER \div Limb
        t0 == r.lo * ml + INCREMENT
    IN  [lo |-> t0 % Limb,
         hi |-> (r.hi * ml + r.lo * mh + t0 \div Limb) % Limb]

\* this.n / this.MODULUS, in ten-thousandths (rounded down, so always < 1)
RandomValue(r) == (r.hi * U + (r.lo * U) \div Limb) \div Limb

\* k successive getFloat() calls: the values drawn, in order, and the
\* generator after them (the run is split in halves to keep the nesting low)
RECURSIVE DrawMany(_, _)
DrawMany(r, k) ==
    IF k = 0 THEN [vals |-> <<>>, rnd |-> r]
    ELSE IF k = 1 THEN LET r1 == RandomStep(r) IN [vals |-> <<RandomValue(r1)>>, rnd |-> r1]
    ELSE LET d1 == DrawMany(r, k \div 2)
             d2 == DrawMany(d1.rnd, k - k \div 2)
         IN  [vals |-> d1.vals \o d2.vals, rnd |-> d2.rnd]

\* -------------------------------------------------------------- CubicNoise

\* new CubicNoise(width, height, randomizer): (width + 2) * (height + 2)
\* values drawn in order; only width is kept
NewCubicNoise(width, height, r) ==
    LET d == DrawMany(r, (width + 2) * (height + 2))
    IN  [rnd |-> d.rnd, noise |-> [width |-> width, values |-> d.vals]]

\* this.values[i] (the array is 0-based)
NoiseValue(noise, i) == noise.values[i + 1]

\* the largest index CubicNoise.sample reads at (x, y)
NoiseMaxIndex(noise, x, y) == (Floor(y) + 3) * noise.width + Floor(x) + 3

Interpolate(a, b, c, d, x) ==
    LET p == d - c - (a - b)
    IN  Fmul(x, Fmul(x, Fmul(x, p) + (a - b - p)) + (c - a)) + b

NoiseRow(noise, xi, row, fx) ==
    Interpolate(NoiseValue(noise, row * noise.width + xi),
                NoiseValue(noise, row * noise.width + xi + 1),
                NoiseValue(noise, row * noise.width + xi + 2),
                NoiseValue(noise, row * noise.width + xi + 3), fx)

NoiseSample(noise, x, y) ==
    LET xi == Floor(x)
        yi == Floor(y)
        fx == x - xi * U
        fy == y - yi * U
    IN  Fmul(Interpolate(NoiseRow(noise, xi, yi, fx), NoiseRow(noise, xi, yi + 1, fx),
                         NoiseRow(noise, xi, yi + 2, fx), NoiseRow(noise, xi, yi + 3, fx), fy),
             U \div 2) + U \div 4

\* ------------------------------------------------------------- GridSampler

\* the sampler's scale, 1 / resolution
SamplerScale(resolution) == Fdiv(U, resolution)

\* values[idx] = v on a JavaScript array: a write past the end lengthens it
ArrayWrite(values, idx, v) ==
    [i \in (DOMAIN values) \cup (0 .. idx) |->
        IF i = idx THEN v ELSE IF i \in DOMAIN values THEN values[i] ELSE 0]

\* values[idx] += d
ArrayAdd(values, idx, d) ==
    ArrayWrite(values, idx, (IF idx \in DOMAIN values THEN values[idx] ELSE 0) + d)

\* the interpolation of GridSampler.sample in the cell (xi, yi), at the
\* fractions fx and fy
SampleLerp(values, w, xi, yi, fx, fy) ==
    LET ylu == values[xi + yi * w]
        yld == values[xi + (yi + 1) * w]
        yru == values[xi + 1 + yi * w]
        yrd == values[xi + 1 + (yi + 1) * w]
    IN  (ylu + Fmul(yld - ylu, fy))
        + Fmul((yru + Fmul(yrd - yru, fy)) - (ylu + Fmul(yld - ylu, fy)), fx)

\* GridSampler.sample from its second early return on: xs, ys are the scaled
\* coordinates, xi, yi their floors
SampleCell(hm, xs, ys, xi, yi) ==
    IF xi >= hm.xValues - 1 \/ yi >= hm.yValues - 1 THEN 0
    ELSE SampleLerp(hm.values, hm.xValues, xi, yi, xs - xi * U, ys - yi * U)

\* GridSampler.sample after x *= this.scale; y *= this.scale
SampleScaled(hm, xs, ys) == SampleCell(hm, xs, ys, Floor(xs), Floor(ys))

\* GridSampler.sample(x, y), defaultValue = 0
GridSample(hm, x, y) ==
    IF x < 0 \/ y < 0 THEN 0
    ELSE SampleScaled(hm, Fmul(x, SamplerScale(hm.resolution)),
                      Fmul(y, SamplerScale(hm.resolution)))

\* change() without its early returns
ChangeUnguarded(hm, x, y) == TRUE

\* change() with its first early return only: no test of the cell indices
ChangeInBoundsLowOnly(hm, x, y) == ~(x < 0 \/ y < 0)

\* whether GridSampler.change(x, y, .) passes both of its early returns
ChangeInBounds(hm, x, y) ==
    /\ ~(x < 0 \/ y < 0)
    /\ ~(\/ Floor(Fmul(x, SamplerScale(hm.resolution))) >= hm.xValues - 1
         \/ Floor(Fmul(y, SamplerScale(hm.resolution))) >= hm.yValues - 1)

\* writes of change() that leave out the last of the four cells
CellWritesThree(values, w, xi, yi, fx, fy, delta) ==
    ArrayAdd(ArrayAdd(ArrayAdd(values,
                               xi + yi * w, Fmul(Fmul(fx, fy), delta)),
                      xi + 1 + yi * w, Fmul(Fmul(U - fx, fy), delta)),
             xi + (yi + 1) * w, Fmul(Fmul(fx, U - fy), delta))

\* the four writes of GridSampler.change in the cell (xi, yi), in the code's
\* order
CellWrites(values, w, xi, yi, fx, fy, delta) ==
    ArrayAdd(ArrayAdd(ArrayAdd(ArrayAdd(values,
                                        xi + yi * w, Fmul(Fmul(fx, fy), delta)),
                               xi + 1 + yi * w, Fmul(Fmul(U - fx, fy), delta)),
                      xi + (yi + 1) * w, Fmul(Fmul(fx, U - fy), delta)),
             xi + 1 + (yi + 1) * w, Fmul(Fmul(U - fx, U - fy), delta))

\* GridSampler.change after x *= this.scale; y *= this.scale
ScaledWrites(hm, xs, ys, delta) ==
    CellWrites(hm.values, hm.xValues, Floor(xs), Floor(ys),
               xs - Floor(xs) * U, ys - Floor(ys) * U, delta)

\* GridSampler.change past its early returns
ChangeWrites(hm, x, y, delta) ==
    ScaledWrites(hm, Fmul(x, SamplerScale(hm.resolution)),
                 Fmul(y, SamplerScale(hm.resolution)), delta)

\* GridSampler.change(x, y, delta): the values array after the call
GridChange(hm, x, y, delta) ==
    IF ChangeInBounds(hm, x, y) THEN ChangeWrites(hm, x, y, delta) ELSE hm.values

\* the value blur() computes for the interior cell (x, y), from the old values
BlurCell(hm, x, y) ==
    LET w == hm.xValues
        v == hm.values
    IN  Fmul(v[x - 1 + y * w] + v[x + (y - 1) * w] + v[x + 1 + y * w] + v[x + (y + 1) * w],
             U \div 8)
        + Fmul(v[x - 1 + (y - 1) * w] + v[x + 1 + (y - 1) * w]
               + v[x + 1 + (y + 1) * w] + v[x - 1 + (y + 1) * w], U \div 16)
        + Fmul(v[x + y * w], U \div 4)

\* a blur that writes each cell as soon as it is computed, from cell i on
RECURSIVE BlurInPlaceFrom(_, _)
BlurInPlaceFrom(hm, i) ==
    IF i \notin DOMAIN hm.values THEN hm.values
    ELSE IF /\ i % hm.xValues >= 1 /\ i % hm.xValues < hm.xValues - 1
            /\ i \div hm.xValues >= 1 /\ i \div hm.xValues < hm.yValues - 1
         THEN BlurInPlaceFrom([hm EXCEPT !.values[i] =
                                  BlurCell(hm, i % hm.xValues, i \div hm.xValues)], i + 1)
         ELSE BlurInPlaceFrom(hm, i + 1)

\* a blur without the newValues buffer
GridBlurInPlace(hm) == BlurInPlaceFrom(hm, 0)

\* GridSampler.blur(): the values array after the call
GridBlur(hm) ==
    [i \in DOMAIN hm.values |->
        LET x == i % hm.xValues
            y == i \div hm.xValues
        IN  IF x >= 1 /\ x < hm.xValues - 1 /\ y >= 1 /\ y < hm.yValues - 1
            THEN BlurCell(hm, x, y) ELSE hm.values[i]]

\* --------------------------------------------------------------- ShapeCone

\* ShapeCone.sample(x, y); power is given as twice its value
ShapeConeSample(shape, x, y) ==
    LET dx == Fdiv(Fmul(shape.width, U \div 2) - x, shape.width)
        dy == Fdiv(Fmul(shape.height, U \div 2) - y, shape.height)
        t == Min(U, 2 * Fsqrt(Fmul(dx, dx) + Fmul(dy, dy)))
    IN  Fmul(CosPi(Fpow(t, shape.power2)), U \div 2) + U \div 2

\* ---------------------------------------------------------------- HeightMap

RECURSIVE OctaveScale(_, _)
\* the value of scale in createNoises() when the given octave is created
OctaveScale(prm, octave) ==
    IF octave = 0 THEN prm.scale ELSE Fmul(OctaveScale(prm, octave - 1), prm.scaleFalloff)

\* the number of values of the CubicNoise of an octave
OctaveSize(prm, xValues, yValues, octave) ==
    (Ceil(OctaveScale(prm, octave) * xValues) + 2) * (Ceil(OctaveScale(prm, octave) * yValues) + 2)

RECURSIVE OctaveOffset(_, _, _, _)
\* the number of values drawn for the octaves before the given one
OctaveOffset(prm, xValues, yValues, octave) ==
    IF octave = 0 THEN 0
    ELSE OctaveOffset(prm, xValues, yValues, octave - 1)
         + OctaveSize(prm, xValues, yValues, octave - 1)

\* HeightMap.createNoises(): one CubicNoise per octave, each filled with the
\* next (width + 2) * (height + 2) draws of the one generator
CreateNoises(prm, xValues, yValues, r) ==
    LET d == DrawMany(r, OctaveOffset(prm, xValues, yValues, prm.octaves))
    IN  [rnd |-> d.rnd,
         noises |-> [octave \in 1 .. prm.octaves |->
                        [width |-> Ceil(OctaveScale(prm, octave - 1) * xValues),
                         values |-> SubSeq(d.vals,
                                           OctaveOffset(prm, xValues, yValues, octave - 1) + 1,
                                           OctaveOffset(prm, xValues, yValues, octave))]]]

RECURSIVE InfluenceLoop(_, _, _, _, _)
InfluenceLoop(octaves, falloff, octave, influence, acc) ==
    IF octave >= octaves THEN acc
    ELSE InfluenceLoop(octaves, falloff, octave + 1,
                       IF octave # octaves - 1 THEN Fmul(influence, falloff) ELSE influence,
                       Append(acc, influence))

\* the first influence without its last division by iFalloff
MakeInfluencesUndivided(octaves, falloff) ==
    LET iFalloff == Fdiv(U, falloff)
        pw == FpowInt(iFalloff, octaves)
        influence == Fdiv(Fmul(iFalloff - U, pw), pw - U)
    IN  InfluenceLoop(octaves, falloff, 0, influence, <<>>)

\* HeightMap.makeInfluences(octaves, falloff)
MakeInfluences(octaves, falloff) ==
    LET iFalloff == Fdiv(U, falloff)
        pw == FpowInt(iFalloff, octaves)
        influence == Fdiv(Fdiv(Fmul(iFalloff - U, pw), pw - U), iFalloff)
    IN  InfluenceLoop(octaves, falloff, 0, influence, <<>>)

RECURSIVE OctaveLoop(_, _, _, _, _, _, _, _)
\* the octave loop of generate() for the cell (x, y)
OctaveLoop(prm, noises, influences, x, y, octave, scale, height) ==
    IF octave >= prm.octaves THEN height
    ELSE OctaveLoop(prm, noises, influences, x, y, octave + 1,
                    IF octave # prm.octaves - 1 THEN Fmul(scale, prm.scaleFalloff) ELSE scale,
                    height + Fmul(NoiseSample(noises[octave + 1], x * scale, y * scale),
                                  influences[octave + 1]))

\* the value generate() stores in the cell (x, y)
GenerateCell(prm, noises, influences, shape, resolution, x, y) ==
    LET height == OctaveLoop(prm, noises, influences, x, y, 0,
                             Fmul(prm.scale, resolution), 0)
    IN  Fmul(Fmul(Fpow(height, prm.heightPower2), prm.amplitude),
             ShapeConeSample(shape, x * resolution, y * resolution))

\* a maxHeight that generate() never raises
MaxHeightNeverRaised(values) == 0

\* this.maxHeight after generate(): it starts at 0 and is raised to every
\* larger value stored
MaxHeight(values) ==
    LET s == {0} \cup {values[index] : index \in DOMAIN values}
    IN  CHOOSE m \in s : \A v \in s : m >= v

\* new HeightMap(parameters, xValues, yValues, resolution, shape, random)
NewHeightMap(prm, xValues, yValues, resolution, shape, r) ==
    LET c == CreateNoises(prm, xValues, yValues, r)
        influences == MakeInfluences(prm.octaves, prm.influenceFalloff)
        values == [index \in 0 .. xValues * yValues - 1 |->
                      GenerateCell(prm, c.noises, influences, shape, resolution,
                                   index % xValues, index \div xValues)]
    IN  [rnd |-> c.rnd, noises |-> c.noises,
         heightMap |-> [xValues |-> xValues, yValues |-> yValues,
                        resolution |-> resolution, values |-> values,
                        maxHeight |-> MaxHeight(values)]]

\* the scale at which the length of a normal is taken: the finest one that
\* keeps every intermediate within 32 bits
NormalScale(s) == IF s < 20 * U THEN 100 ELSE IF s < 2000 * U THEN 10 ELSE 1

\* { x: nx / len, y: ny / len, z: nz / len }, the division done at the scale k
NormalOver(nx, ny, nz, k, len) ==
    IF len = 0 THEN [x |-> nx, y |-> ny, z |-> nz]
    ELSE [x |-> (IF nx < 0 THEN -1 ELSE 1) * RoundDiv(Abs(nx) * k * U, len),
          y |-> RoundDiv(ny * k * U, len),
          z |-> (IF nz < 0 THEN -1 ELSE 1) * RoundDiv(Abs(nz) * k * U, len)]

\* len = Math.sqrt(nx * nx + ny * ny + nz * nz) || 1, from the sum s
NormalScaled(nx, ny, nz, s, k) == NormalOver(nx, ny, nz, k, Isqrt(s * k * k))

\* the normal of the components, from the sum s of their squares
Normalized(nx, ny, nz, s) == NormalScaled(nx, ny, nz, s, NormalScale(s))

\* the normal of the components nx, ny, nz
NormalOf(nx, ny, nz) == Normalized(nx, ny, nz, nx * nx + ny * ny + nz * nz)

\* the normal from the four samples around (x, y)
NormalFrom(doubleRadius, left, top, right, bottom) ==
    NormalOf(Fmul(doubleRadius, right - left), Fmul(doubleRadius, doubleRadius),
             Fmul(doubleRadius, bottom - top))

\* HeightMap.sampleNormal(x, y)
SampleNormal(hm, x, y) ==
    NormalFrom(-(hm.resolution + hm.resolution),
               GridSample(hm, x - hm.resolution, y), GridSample(hm, x, y - hm.resolution),
               GridSample(hm, x + hm.resolution, y), GridSample(hm, x, y + hm.resolution))

\* ----------------------------------------------------------- ErosionCoastal

\* the threshold ErosionCoastal.apply computes for the cell (x, y)
CoastalThreshold(prm, noise, resolution, x, y) ==
    prm.waveHeightMin
    + Fmul(NoiseSample(noise, Fmul(x * resolution, prm.noiseScale),
                       Fmul(y * resolution, prm.noiseScale)),
           prm.waveHeightMax - prm.waveHeightMin)

\* the coastal update without the test against the threshold
CoastalCellUntested(v, threshold, power2) == Fmul(v, Fpow(Fdiv(v, threshold), power2))

\* values[index] *= (values[index] / threshold) ** power, under the code's test
CoastalCell(v, threshold, power2) ==
    IF v < threshold THEN Fmul(v, Fpow(Fdiv(v, threshold), power2)) ELSE v

\* ErosionCoastal.apply(heightMap): the generator and the values after the
\* call, with the thresholds it used
CoastalApply(prm, resolution, hm, r) ==
    LET c == NewCubicNoise(Ceil(Fmul(hm.xValues * resolution, prm.noiseScale)),
                           Ceil(Fmul(hm.yValues * resolution, prm.noiseScale)), r)
        thr == [index \in DOMAIN hm.values |->
                   CoastalThreshold(prm, c.noise, resolution,
                                    index % hm.xValues, index \div hm.xValues)]
    IN  [rnd |-> c.rnd, noise |-> c.noise, thresholds |-> thr,
         values |-> [index \in DOMAIN hm.values |->
                        CoastalCell(hm.values[index], thr[index], prm.power2)]]

\* ---------------------------------------------------------------- Volcanoes

\* the crater threshold of the cell (x, y)
VolcanoThreshold(prm, rimNoise, hm, x, y) ==
    LET volcanoThreshold ==
            Max(prm.volcanoThreshold,
                hm.maxHeight - Fmul(prm.volcanoMaxDepth, Fdiv(U, prm.volcanoCraterScale)))
    IN  Fmul(2 * NoiseSample(rimNoise,
                             Fmul(x * hm.resolution, prm.volcanoThresholdScale),
                             Fmul(y * hm.resolution, prm.volcanoThresholdScale)) - U \div 2,
             prm.volcanoThresholdAmplitude) + volcanoThreshold

\* a crater cut down to the threshold and no further
VolcanoCellToThreshold(prm, height, threshold) ==
    IF height > threshold THEN height - (height - threshold) ELSE height

\* the cell after the pass: -= (height - threshold) * (1 + volcanoCraterScale)
VolcanoCell(prm, height, threshold) ==
    IF height > threshold
    THEN height - Fmul(height - threshold, U + prm.volcanoCraterScale)
    ELSE height

\* Volcanoes.apply(heightMap)
VolcanoesApply(prm, hm, r) ==
    LET c == NewCubicNoise(Ceil(Fmul(hm.xValues * hm.resolution, prm.volcanoThresholdScale)),
                           Ceil(Fmul(hm.yValues * hm.resolution, prm.volcanoThresholdScale)), r)
    IN  [rnd |-> c.rnd, noise |-> c.noise,
         thresholds |-> [index \in DOMAIN hm.values |->
                            VolcanoThreshold(prm, c.noise, hm, index % hm.xValues,
                                             index \div hm.xValues)],
         values |-> [index \in DOMAIN hm.values |->
                        VolcanoCell(prm, hm.values[index],
                                    VolcanoThreshold(prm, c.noise, hm, index % hm.xValues,
                                                     index \div hm.xValues))]]

\* --------------------------------------------------------- ErosionHydraulic

\* a loop of apply() that runs while i <= drops
DropsOneMore(prm, hm) == prm.dropsPerCell * (hm.xValues - 1) * (hm.yValues - 1) + U

\* drops = dropsPerCell * (xValues - 1) * (yValues - 1); the loop runs while
\* i < drops
Drops(prm, hm) == prm.dropsPerCell * (hm.xValues - 1) * (hm.yValues - 1)

\* the two draws of apply() for the start point, then the two of trace() for
\* the offset; the locals of trace() before its loop
TraceStart(prm, resolution, hm, r) ==
    LET d == DrawMany(r, 4)
        x == Fmul(d.vals[1] * hm.xValues, resolution)
        y == Fmul(d.vals[2] * hm.yValues, resolution)
    IN  [rnd |-> d.rnd,
         trace |-> [x |-> x, y |-> y,
                    ox |-> Fmul(Fmul(d.vals[3] * 2 - U, prm.radius), resolution),
                    oy |-> Fmul(Fmul(d.vals[4] * 2 - U, prm.radius), resolution),
                    sediment |-> 0, xp |-> x, yp |-> y, vx |-> 0, vy |-> 0, i |-> 0]]

\* the normal the loop body of trace() samples
TraceNormal(hm, t) == SampleNormal(hm, t.x + t.ox, t.y + t.oy)

\* a loop of trace() without its break: it runs to maxIterations
TraceContinuesPastFlat(prm, hm, t) == t.i < prm.maxIterations

\* whether the loop of trace() runs its body once more
TraceContinues(prm, hm, t) == t.i < prm.maxIterations /\ TraceNormal(hm, t).y # U

\* a deposit with its sign reversed: sediment is picked up where it should be
\* laid down
TraceDepositReversed(prm, t, n) == -Fmul(Fmul(t.sediment, prm.depositionRate), n.y)

\* deposit = sediment * depositionRate * n.y
TraceDeposit(prm, t, n) == Fmul(Fmul(t.sediment, prm.depositionRate), n.y)

\* an erosion without its ramp: full strength from the first iteration on
TraceErosionNoRamp(prm, t, n) == Fmul(prm.erosionRate, U - n.y)

\* erosion = erosionRate * (1 - n.y) * Math.min(1, i * iterationScale)
TraceErosion(prm, t, n) ==
    Fmul(Fmul(prm.erosionRate, U - n.y), Min(U, t.i * prm.iterationScale))

\* the locals of trace() after the loop body, given the new velocity
TraceMoved(t, vx, vy, deposit, erosion) ==
    [t EXCEPT !.vx = vx, !.vy = vy, !.xp = t.x, !.yp = t.y,
              !.x = t.x + vx, !.y = t.y + vy,
              !.sediment = t.sediment + (erosion - deposit),
              !.i = t.i + 1]

\* the loop body of trace() from the change on
TraceChange(prm, resolution, hm, t, n, deposit, erosion) ==
    [values |-> GridChange(hm, t.xp, t.yp, deposit - erosion),
     trace |-> TraceMoved(t, Fmul(prm.friction, t.vx) + Fmul(Fmul(n.x, prm.speed), resolution),
                          Fmul(prm.friction, t.vy) + Fmul(Fmul(n.z, prm.speed), resolution),
                          deposit, erosion)]

\* the loop body of trace() with the normal n sampled
TraceWithNormal(prm, resolution, hm, t, n) ==
    TraceChange(prm, resolution, hm, t, n, TraceDeposit(prm, t, n), TraceErosion(prm, t, n))

\* one pass through the loop body of trace(): the values and the locals after
TraceBody(prm, resolution, hm, t) ==
    TraceWithNormal(prm, resolution, hm, t, TraceNormal(hm, t))

\* ------------------------------------------------------ Terrain / Landmass

\* null
Null == [null |-> TRUE]

\* the defaults of the Landmass constructor
DefaultHeightMapParams ==
    [octaves |-> 6, scale |-> U \div 10, influenceFalloff |-> U \div 2,
     scaleFalloff |-> (17 * U) \div 10, amplitude |-> 30 * U, heightPower2 |-> 9]

DefaultErosionHydraulicParams ==
    [dropsPerCell |-> (4 * U) \div 10, erosionRate |-> (4 * U) \div 100,
     depositionRate |-> (3 * U) \div 100, speed |-> (15 * U) \div 100,
     friction |-> (7 * U) \div 10, radius |-> (8 * U) \div 10,
     maxIterations |-> 80, iterationScale |-> (4 * U) \div 100]

DefaultErosionCoastalParams ==
    [waveHeightMin |-> (4 * U) \div 10, waveHeightMax |-> (12 * U) \div 10,
     noiseScale |-> U \div 2, power2 |-> 6]

DefaultVolcanoesParams ==
    [volcanoThreshold |-> (25 * U) \div 10, volcanoThresholdAmplitude |-> 2 * U,
     volcanoThresholdScale |-> (2 * U) \div 10, volcanoMaxDepth |-> U \div 2,
     volcanoCraterScale |-> U \div 2]

\* (shapePower is 1.5, the slider value next to the constructor's 1.6 that
\* is a multiple of one half)
DefaultParams ==
    [shapePower2 |-> 3, heightMapParameters |-> DefaultHeightMapParams,
     erosionHydraulicParameters |-> DefaultErosionHydraulicParams,
     erosionCoastalParameters |-> DefaultErosionCoastalParams,
     volcanoesParameters |-> DefaultVolcanoesParams]

\* const resolution = this.size / (N - 1), N = this.subdivisions + 1
Resolution(size, subdivisions) == RoundDiv(size, subdivisions)

\* Terrain.createHeightMap: Math.ceil(width / resolution) + 1 values a side
GridValues(extent, resolution) == Ceil(Fdiv(extent, resolution)) + 1

\* a build that goes on with the generator of the build before it
BuildRandomContinued(seed, previous) == IF previous = Null THEN NewRandom(seed) ELSE previous

\* const random = new Random(this.seed), whatever generator came before
BuildRandom(seed, previous) == NewRandom(seed)

\* _buildTerrain with createVolcanoes and erodeCoastal exchanged
NextStageExchanged(stage) ==
    CASE stage = "createHeightMap" -> "createVolcanoes"
      [] stage = "createVolcanoes" -> "erodeCoastal"
      [] stage = "erodeCoastal" -> "erodeHydraulic"
      [] stage = "erodeHydraulic" -> "buildMesh"
      [] stage = "buildMesh" -> "conformBasin"
      [] stage = "conformBasin" -> "built"

\* the calls of _buildTerrain, in the order of its statements
NextStage(stage) ==
    CASE stage = "createHeightMap" -> "erodeCoastal"
      [] stage = "erodeCoastal" -> "createVolcanoes"
      [] stage = "createVolcanoes" -> "erodeHydraulic"
      [] stage = "erodeHydraulic" -> "buildMesh"
      [] stage = "buildMesh" -> "conformBasin"
      [] stage = "conformBasin" -> "built"

\* the number of values the noises of a list hold
RECURSIVE NoiseDraws(_)
NoiseDraws(noises) ==
    IF Len(noises) = 0 THEN 0 ELSE Len(Head(noises).values) + NoiseDraws(Tail(noises))

MaxIterations == 30
MaxSeed == 2

\* parameter sets the GUI can produce (every value lies in its slider's range)
StrongErosionHydraulicParams ==
    [DefaultErosionHydraulicParams EXCEPT !.erosionRate = U \div 2,
                                          !.depositionRate = U \div 2,
                                          !.radius = 5 * U,
                                          !.maxIterations = MaxIterations,
                                          !.iterationScale = (2 * U) \div 10]

ParamChoices ==
    {DefaultParams,
     [DefaultParams EXCEPT !.erosionHydraulicParameters = StrongErosionHydraulicParams]}

\* opts.size and opts.subdivisions of the islands built
LandmassOpts == {[size |-> U, subdivisions |-> 10]}

VARIABLES
    size, subdivisions, seed, params,   \* fields of the Landmass
    mesh,                               \* this.mesh: Null or the vertex heights
    pc,                                 \* the call _buildTerrain is about to make
    random,                             \* the Random of the running build
    heightMap,                          \* terrain.heightMap
    dropIndex, trace,                   \* i of ErosionHydraulic.apply; locals of trace()
    stageLog,                           \* the calls of this build that have returned
    draws,                              \* getFloat() calls since new Random
    coastalLog,                         \* the values before erodeCoastal and its thresholds
    lastBuild,                           \* seed, params, grid and draws of the build before
    liveMeshes,     \* the meshes named 'island' created and not disposed
    thisHeightMap,  \* the terrain Landmass.heightMap refers to: none, the previous, the current
    applyLog,       \* ErosionHydraulic.apply of this build: the traces begun and ended, the blur
    blurLog,        \* the values blur() of this build started from
    volcanoLog,     \* the values before createVolcanoes of this build, its thresholds and limit
    traceLog,       \* the values the running trace() started from
    erodeSteps      \* steps of ErosionHydraulic.apply run in this build

terrainVars == <<size, subdivisions, liveMeshes, thisHeightMap, applyLog, blurLog, volcanoLog,
                 traceLog, erodeSteps, seed, params, mesh, pc, random, heightMap,
                 dropIndex, trace, stageLog, draws, coastalLog, lastBuild>>

\* the Landmass constructor up to its call of _buildTerrain
TerrainInit ==
    /\ \E o \in LandmassOpts : size = o.size /\ subdivisions = o.subdivisions
    /\ seed \in 0 .. MaxSeed
    /\ params \in ParamChoices
    /\ mesh = Null
    /\ pc = "createHeightMap"
    /\ random = Null
    /\ heightMap = Null
    /\ dropIndex = 0
    /\ trace = Null
    /\ stageLog = <<>>
    /\ draws = 0
    /\ coastalLog = Null
    /\ lastBuild = Null
    /\ liveMeshes = 0
    /\ thisHeightMap = "none"
    /\ applyLog = <<>>
    /\ blurLog = Null
    /\ volcanoLog = Null
    /\ traceLog = Null
    /\ erodeSteps = 0

\* new Random(this.seed); terrain.createHeightMap()
CreateHeightMap ==
    /\ pc = "createHeightMap"
    /\ LET resolution == Resolution(size, subdivisions)
           c == NewHeightMap(params.heightMapParameters,
                             GridValues(size, resolution), GridValues(size, resolution),
                             resolution,
                             [width |-> size, height |-> size, power2 |-> params.shapePower2],
                             BuildRandom(seed, random))
       IN  /\ heightMap' = c.heightMap
           /\ random' = c.rnd
           /\ draws' = NoiseDraws(c.noises)
    /\ pc' = NextStage(pc)
    /\ stageLog' = Append(stageLog, pc)
    /\ UNCHANGED <<size, subdivisions, liveMeshes, thisHeightMap, applyLog, blurLog, volcanoLog, traceLog, erodeSteps, seed, params, mesh, dropIndex, trace, coastalLog,
                   lastBuild>>

\* terrain.erodeCoastal()
ErodeCoastal ==
    /\ pc = "erodeCoastal"
    /\ LET c == CoastalApply(params.erosionCoastalParameters, heightMap.resolution,
                             heightMap, random)
       IN  /\ heightMap' = [heightMap EXCEPT !.values = c.values]
           /\ random' = c.rnd
           /\ draws' = draws + Len(c.noise.values)
           /\ coastalLog' = [before |-> heightMap.values, thresholds |-> c.thresholds]
    /\ pc' = NextStage(pc)
    /\ stageLog' = Append(stageLog, pc)
    /\ UNCHANGED <<size, subdivisions, liveMeshes, thisHeightMap, applyLog, blurLog, volcanoLog, traceLog, erodeSteps, seed, params, mesh, dropIndex, trace, lastBuild>>

\* terrain.createVolcanoes()
CreateVolcanoes ==
    /\ pc = "createVolcanoes"
    /\ LET c == VolcanoesApply(params.volcanoesParameters, heightMap, random)
       IN  /\ heightMap' = [heightMap EXCEPT !.values = c.values]
           /\ random' = c.rnd
           /\ draws' = draws + Len(c.noise.values)
           /\ volcanoLog' = [before |-> heightMap.values, maxHeight |-> heightMap.maxHeight,
                             thresholds |-> c.thresholds, noise |-> c.noise, after |-> c.values]
    /\ pc' = NextStage(pc)
    /\ stageLog' = Append(stageLog, pc)
    /\ UNCHANGED <<size, subdivisions, liveMeshes, thisHeightMap, applyLog, blurLog, traceLog, erodeSteps, seed, params, mesh, dropIndex, trace, coastalLog,
                   lastBuild>>

\* ErosionHydraulic.apply: the loop test passes, the start point is drawn and
\* trace() runs up to its loop
BeginTrace ==
    /\ pc = "erodeHydraulic"
    /\ trace = Null
    /\ dropIndex * U < Drops(params.erosionHydraulicParameters, heightMap)
    /\ LET c == TraceStart(params.erosionHydraulicParameters, heightMap.resolution,
                           heightMap, random)
       IN  /\ trace' = c.trace
           /\ random' = c.rnd
    /\ draws' = draws + 4
    /\ applyLog' = Append(applyLog, "begin")
    /\ traceLog' = heightMap.values
    /\ erodeSteps' = erodeSteps + 1
    /\ UNCHANGED <<blurLog, volcanoLog, size, subdivisions, liveMeshes, thisHeightMap, seed, params, mesh, pc, heightMap, dropIndex,
                   stageLog, coastalLog, lastBuild>>

\* one iteration of the loop of trace()
TraceIterate ==
    /\ pc = "erodeHydraulic"
    /\ trace # Null
    /\ TraceContinues(params.erosionHydraulicParameters, heightMap, trace)
    /\ LET c == TraceBody(params.erosionHydraulicParameters, heightMap.resolution,
                          heightMap, trace)
       IN  /\ heightMap' = [heightMap EXCEPT !.values = c.values]
           /\ trace' = c.trace
    /\ erodeSteps' = erodeSteps + 1
    /\ UNCHANGED <<size, subdivisions, liveMeshes, thisHeightMap, applyLog, blurLog, volcanoLog, traceLog, seed, params, mesh, pc, random, dropIndex,
                   stageLog, draws, coastalLog, lastBuild>>

\* the loop of trace() ends (break or i = maxIterations); ++i in apply()
EndTrace ==
    /\ pc = "erodeHydraulic"
    /\ trace # Null
    /\ ~TraceContinues(params.erosionHydraulicParameters, heightMap, trace)
    /\ trace' = Null
    /\ dropIndex' = dropIndex + 1
    /\ applyLog' = Append(applyLog, "end")
    /\ erodeSteps' = erodeSteps + 1
    /\ UNCHANGED <<blurLog, volcanoLog, traceLog, size, subdivisions, liveMeshes, thisHeightMap, seed, params, mesh, pc, random, heightMap,
                   stageLog, draws, coastalLog, lastBuild>>

\* the drops are done: heightMap.sampler.blur(), and erodeHydraulic returns
\* (its loop counter is gone: dropIndex is 0 outside the pass)
Blur ==
    /\ pc = "erodeHydraulic"
    /\ trace = Null
    /\ ~(dropIndex * U < Drops(params.erosionHydraulicParameters, heightMap))
    /\ heightMap' = [heightMap EXCEPT !.values = GridBlur(heightMap)]
    /\ applyLog' = Append(applyLog, "blur")
    /\ blurLog' = heightMap.values
    /\ erodeSteps' = erodeSteps + 1
    /\ UNCHANGED <<volcanoLog, traceLog>>
    /\ dropIndex' = 0
    /\ pc' = NextStage(pc)
    /\ stageLog' = Append(stageLog, pc)
    /\ UNCHANGED <<size, subdivisions, liveMeshes, thisHeightMap, seed, params, mesh, random, trace, draws,
                   coastalLog, lastBuild>>

\* the colour of a vertex of _buildMeshFromHeightMap, by its height
VertexColour(h) ==
    IF h < (25 * U) \div 100 THEN <<2000, 3000, 6000, U>>
    ELSE IF h < 5 * U THEN <<4000, 7000, 4000, U>>
    ELSE IF h < 15 * U THEN <<6000, 5000, 3500, U>>
    ELSE <<8200, 8200, 8200, U>>

\* the six indices pushed for the cell (x, y), split along the flatter diagonal
CellIndices(hm, x, y) ==
    LET iLT == x + y * hm.xValues
        iRT == iLT + 1
        iLB == x + (y + 1) * hm.xValues
        iRB == iLB + 1
    IN  IF Abs(hm.values[iRB] - hm.values[iLT]) > Abs(hm.values[iRT] - hm.values[iLB])
        THEN <<iLB, iLT, iRT, iRT, iRB, iLB>>
        ELSE <<iLT, iRT, iRB, iRB, iLB, iLT>>

\* the buffers _buildMeshFromHeightMap gives the mesh: the y of the
\* positions, the colours, the indices by cell (the normals are computed from
\* positions and indices); no skirt yet
BuiltMesh(hm) ==
    [positionsY |-> hm.values,
     colours |-> [k \in DOMAIN hm.values |-> VertexColour(hm.values[k])],
     indices |-> [c \in 0 .. (hm.xValues - 1) * (hm.yValues - 1) - 1 |->
                     CellIndices(hm, c % (hm.xValues - 1), c \div (hm.xValues - 1))],
     skirtCentres |-> <<>>]

\* this._buildMeshFromHeightMap(): one vertex per cell, its Y the cell's value
BuildMesh ==
    /\ pc = "buildMesh"
    /\ thisHeightMap' = "current"
    /\ mesh' = BuiltMesh(heightMap)
    /\ liveMeshes' = liveMeshes + 1
    /\ pc' = NextStage(pc)
    /\ stageLog' = Append(stageLog, pc)
    /\ UNCHANGED <<size, subdivisions, applyLog, blurLog, volcanoLog, traceLog, erodeSteps, seed, params, random, heightMap, dropIndex, trace,
                   draws, coastalLog, lastBuild>>

\* a dispose() that drops the reference and leaves the mesh in the scene
DisposedMeshesKept(m, live) == live

\* the live meshes after dispose(): if (this.mesh) this.mesh.dispose()
DisposedMeshes(m, live) == IF m # Null THEN live - 1 ELSE live

\* what rebuild() does before the stages of _buildTerrain: dispose(), the new
\* parameter objects from the GUI values
StartRebuild(newSeed, newParams) ==
    /\ pc = "built"
    /\ lastBuild' = [seed |-> seed, params |-> params, values |-> heightMap.values,
                     draws |-> draws, random |-> random]
    /\ seed' = newSeed
    /\ params' = newParams
    /\ mesh' = Null
    /\ liveMeshes' = DisposedMeshes(mesh, liveMeshes)
    /\ thisHeightMap' = "previous"
    /\ applyLog' = <<>>
    /\ blurLog' = Null
    /\ volcanoLog' = Null
    /\ traceLog' = Null
    /\ erodeSteps' = 0
    /\ pc' = "createHeightMap"
    /\ stageLog' = <<>>
    /\ UNCHANGED <<size, subdivisions, random, heightMap, dropIndex, trace, draws,
                   coastalLog>>

\* a slider's onChange: rebuild() with the GUI's values
Rebuild == \E newParams \in ParamChoices : StartRebuild(seed, newParams)

\* the New Seed button: this.seed = Math.floor(Math.random() * 0xffffffff); rebuild()
RandomizeSeed == \E newSeed \in 0 .. MaxSeed : StartRebuild(newSeed, params)

\* ------------------------------------------------- claims on the terrain

StageOrder == <<"createHeightMap", "erodeCoastal", "createVolcanoes", "erodeHydraulic",
                "buildMesh", "conformBasin">>

\* C1: the stages of a build return in the order height map, coastal erosion,
\* volcanoes, hydraulic erosion, mesh, seabed: what has returned so far is always an
\* initial part of that order, a droplet is traced only when the first three
\* have returned, and a mesh exists only when the hydraulic pass, whose last
\* step is the blur, has returned.
StagesInOrder ==
    /\ Len(stageLog) <= Len(StageOrder)
    /\ stageLog = SubSeq(StageOrder, 1, Len(stageLog))
    /\ pc = (IF Len(stageLog) < Len(StageOrder) THEN StageOrder[Len(stageLog) + 1] ELSE "built")
    /\ (trace # Null \/ dropIndex > 0) => Len(stageLog) >= 3
    /\ mesh # Null => (Len(stageLog) >= 4 /\ stageLog[4] = "erodeHydraulic")

StagesInOrderWitness ==
    /\ pc = "built"
    /\ mesh # Null
    /\ stageLog = StageOrder
    /\ mesh.positionsY # coastalLog.before

\* C2: a build with the seed and the parameters of the build before it makes
\* as many draws from the same starting generator, leaves the generator in the
\* same state and ends with the same value in every cell.
SameSeedSameTerrain ==
    (pc = "built" /\ lastBuild # Null /\ lastBuild.seed = seed /\ lastBuild.params = params)
        => /\ heightMap.values = lastBuild.values
           /\ draws = lastBuild.draws
           /\ random = lastBuild.random

SameSeedSameTerrainWitness ==
    /\ pc = "built"
    /\ lastBuild # Null
    /\ lastBuild.seed = seed
    /\ lastBuild.params = params
    /\ draws > 0
    /\ \E i \in DOMAIN heightMap.values : heightMap.values[i] > 0

\* C3: the grid has ceil(width / resolution) + 1 values a side (251 for a
\* width of 25 at resolution 0.1) and, from its creation on, exactly one cell
\* for each index below xValues * yValues.
GridSizeKept ==
    /\ GridValues(25 * U, U \div 10) = 251
    /\ heightMap # Null =>
        /\ heightMap.xValues = Ceil(Fdiv(size, Resolution(size, subdivisions))) + 1
        /\ heightMap.yValues = Ceil(Fdiv(size, Resolution(size, subdivisions))) + 1
        /\ DOMAIN heightMap.values = 0 .. heightMap.xValues * heightMap.yValues - 1

GridSizeKeptWitness ==
    /\ pc = "built"
    /\ heightMap.xValues = subdivisions + 1
    /\ heightMap.values # coastalLog.before
    /\ \E i \in DOMAIN heightMap.values : coastalLog.before[i] < coastalLog.thresholds[i]

\* the passes before the hydraulic one have returned or not yet started
BeforeDroplets ==
    \/ pc = "erodeCoastal"
    \/ pc = "createVolcanoes"
    \/ pc = "erodeHydraulic" /\ dropIndex = 0 /\ trace = Null

NoCellAbove(limit) == \A i \in DOMAIN heightMap.values : heightMap.values[i] <= limit

\* C4 as stated: when the whole pipeline has run, no cell is higher than the
\* maxHeight recorded by generate().
NoCellAboveMaxHeightAtEnd == pc = "built" => NoCellAbove(heightMap.maxHeight)

\* C4, amended: after generate(), after coastal erosion and after the volcano
\* pass no cell is higher than maxHeight (the droplets' deposits can then lift
\* a cell above it).
NoCellAboveMaxHeightBeforeDroplets == BeforeDroplets => NoCellAbove(heightMap.maxHeight)

NoCellAboveMaxHeightWitness ==
    /\ pc = "erodeHydraulic"
    /\ dropIndex = 0
    /\ trace = Null
    /\ heightMap.maxHeight > 0
    /\ heightMap.values # coastalLog.before

\* the cells erodeCoastal found below their thresholds
BelowThreshold(i) == coastalLog.before[i] < coastalLog.thresholds[i]

\* C5 as stated: after erodeCoastal every cell that was below its threshold
\* has a strictly smaller absolute value, cells at 0 and negative cells
\* included, and every other cell is unchanged.
CoastalShrinksEveryCellBelow ==
    pc = "createVolcanoes" =>
        \A i \in DOMAIN heightMap.values :
            IF BelowThreshold(i)
            THEN Abs(heightMap.values[i]) < Abs(coastalLog.before[i])
            ELSE heightMap.values[i] = coastalLog.before[i]

\* C5, amended: after erodeCoastal every cell that was above 0 and below its
\* threshold is strictly lower and not below 0, a cell that was at 0 is still
\* at 0, and a cell at or above its threshold is unchanged.
CoastalShrinksPositiveCellsBelow ==
    pc = "createVolcanoes" =>
        \A i \in DOMAIN heightMap.values :
            /\ (BelowThreshold(i) /\ coastalLog.before[i] > 0)
                  => (0 <= heightMap.values[i] /\ heightMap.values[i] < coastalLog.before[i])
            /\ coastalLog.before[i] = 0 => heightMap.values[i] = 0
            /\ ~BelowThreshold(i) => heightMap.values[i] = coastalLog.before[i]

CoastalShrinksWitness ==
    /\ pc = "createVolcanoes"
    /\ \E i \in DOMAIN heightMap.values : BelowThreshold(i) /\ coastalLog.before[i] > 0
    /\ \E i \in DOMAIN heightMap.values : BelowThreshold(i) /\ coastalLog.before[i] = 0
    /\ \E i \in DOMAIN heightMap.values : ~BelowThreshold(i)

\* C6: while a droplet is traced, the sediment it carries after i passes of
\* the loop is at most i times erosionRate.
SedimentBounded ==
    trace # Null => trace.sediment <= trace.i * params.erosionHydraulicParameters.erosionRate

SedimentBoundedWitness ==
    /\ trace # Null
    /\ trace.i >= 3
    /\ trace.sediment > 0
    /\ trace.sediment < trace.i * params.erosionHydraulicParameters.erosionRate

\* ---------------------------------- shoreline (_conformUnderwaterToCircularBasin)

\* EPS = 1e-3 and inv = 1 / EPS: x * inv for a value x, rounded by Math.round
\* (halves go up)
INV == 1000
RoundTimesInv(x) == (2 * x * INV + U) \div (2 * U)

Half16 == 2 ^ 15

RECURSIVE Xor16(_, _, _)
\* a ^ b on the low n bits of a and b
Xor16(a, b, n) ==
    IF n = 0 THEN 0
    ELSE (IF a % 2 = b % 2 THEN 0 ELSE 1) + 2 * Xor16(a \div 2, b \div 2, n - 1)

\* (Math.round(x * inv) << 16) ^ Math.round(y * inv) as the signed 32-bit
\* integer JavaScript computes
hash(x, y) ==
    LET hi == Xor16(RoundTimesInv(x) % Limb, (RoundTimesInv(y) \div Limb) % Limb, 16)
    IN  (IF hi >= Half16 THEN hi - Limb ELSE hi) * Limb + (RoundTimesInv(y) % Limb)

\* the point the walk decodes from a key: kx = (h >> 16) / inv, ky = (h & 0xffff) / inv
Decode(h) == <<(h \div Limb) * (U \div INV), (h % Limb) * (U \div INV)>>

\* lerp(a, b, fa, fb): t = fa / (fa - fb); a + t * (b - a)
lerp(a, b, fa, fb) == a + Fmul(Fdiv(fa, fa - fb), b - a)

\* the crossings the marching squares of the cell (i, j) find, in the order
\* of the code's tests: left, right, bottom, top edge
Crossings(f, i, j) ==
    LET cell == RoundDiv(f.size, f.W - 1)
        half == Fmul(f.size, U \div 2)
        x0 == i * cell - half
        x1 == (i + 1) * cell - half
        y0 == j * cell - half
        y1 == (j + 1) * cell - half
        v00 == f.field[i + j * f.W]
        v10 == f.field[i + 1 + j * f.W]
        v11 == f.field[i + 1 + (j + 1) * f.W]
        v01 == f.field[i + (j + 1) * f.W]
    IN  (IF (v00 > 0) # (v01 > 0) THEN <<(<<x0, lerp(y0, y1, v00, v01)>>)>> ELSE <<>>)
        \o (IF (v10 > 0) # (v11 > 0) THEN <<(<<x1, lerp(y0, y1, v10, v11)>>)>> ELSE <<>>)
        \o (IF (v00 > 0) # (v10 > 0) THEN <<(<<lerp(x0, x1, v00, v10), y0>>)>> ELSE <<>>)
        \o (IF (v01 > 0) # (v11 > 0) THEN <<(<<lerp(x0, x1, v01, v11), y1>>)>> ELSE <<>>)

\* what the cell pushes on segments: the first crossing found and the last
\* one (every crossing after the first overwrites px2, py2), when found = 2
CellSegment(f, i, j) ==
    LET c == Crossings(f, i, j)
    IN  IF Len(c) >= 2 THEN <<c[1][1], c[1][2], c[Len(c)][1], c[Len(c)][2]>> ELSE <<>>

HasSegment(s) == Len(s) > 0

\* the segments array after the two loops over the cells, rows outermost
MarchingSquares(f) ==
    SelectSeq([k \in 1 .. (f.W - 1) * (f.H - 1) |->
                  CellSegment(f, (k - 1) % (f.W - 1), (k - 1) \div (f.W - 1))],
              HasSegment)

\* the position of the key h among the entries of the Map, 0 when it has none
RECURSIVE KeyIndex(_, _, _)
KeyIndex(entries, h, k) ==
    IF k > Len(entries) THEN 0
    ELSE IF entries[k].h = h THEN k ELSE KeyIndex(entries, h, k + 1)

\* if (!hmap.has(h)) hmap.set(h, [])
EnsureKey(entries, h) ==
    IF KeyIndex(entries, h, 1) = 0 THEN Append(entries, [h |-> h, list |-> <<>>]) ELSE entries

\* hmap.get(h).push(pt)
PushPoint(entries, h, pt) ==
    [entries EXCEPT ![KeyIndex(entries, h, 1)].list = Append(@, pt)]

\* the body of the loop over segments
AddSegment(entries, seg) ==
    LET h1 == hash(seg[1], seg[2])
        h2 == hash(seg[3], seg[4])
        e == EnsureKey(EnsureKey(entries, h1), h2)
    IN  PushPoint(PushPoint(e, h1, <<seg[3], seg[4]>>), h2, <<seg[1], seg[2]>>)

\* next after the walk's choice at the key h, given the decoded point before
\* (<<>> on the first pass of the while loop, where prev is null)
NextPoint(list, prev) ==
    IF prev # <<>> /\ Len(list) > 1
    THEN LET d0 == Fmul(list[1][1] - prev[1], list[1][1] - prev[1])
                   + Fmul(list[1][2] - prev[2], list[1][2] - prev[2])
             d1 == Fmul(list[2][1] - prev[1], list[2][1] - prev[1])
                   + Fmul(list[2][2] - prev[2], list[2][2] - prev[2])
         IN  IF d1 < d0 THEN list[2] ELSE list[1]
    ELSE list[1]

\* the synthetic field of a round island: height = R - distance from the
\* centre of a W x W grid of the given size centred on the origin
IslandField(W, extent, R) ==
    [W |-> W, H |-> W, size |-> extent, R |-> R,
     field |-> [k \in 0 .. W * W - 1 |->
                   LET x == (k % W) * RoundDiv(extent, W - 1) - Fmul(extent, U \div 2)
                       y == (k \div W) * RoundDiv(extent, W - 1) - Fmul(extent, U \div 2)
                   IN  R - Fsqrt(Fmul(x, x) + Fmul(y, y))]]

\* the synthetic field of two round islands of radius R about the grid points
\* (0, 0) and (cell, cell), which are diagonal neighbours
TwinIslandField(W, extent, R) ==
    [W |-> W, H |-> W, size |-> extent, R |-> R,
     field |-> [k \in 0 .. W * W - 1 |->
                   LET cell == RoundDiv(extent, W - 1)
                       x == (k % W) * cell - Fmul(extent, U \div 2)
                       y == (k \div W) * cell - Fmul(extent, U \div 2)
                       d0 == Fsqrt(Fmul(x, x) + Fmul(y, y))
                       d1 == Fsqrt(Fmul(x - cell, x - cell) + Fmul(y - cell, y - cell))
                   IN  R - (IF d0 < d1 THEN d0 ELSE d1)]]

\* the islands whose shoreline is extracted
IslandChoices ==
    {IslandField(9, 4 * U, (12 * U) \div 10), IslandField(9, 4 * U, (13 * U) \div 10),
     IslandField(7, 6 * U, (25 * U) \div 10), IslandField(7, 6 * U, (18 * U) \div 10),
     IslandField(7, 6 * U, 0), IslandField(7, 6 * U, 10 * U),
     TwinIslandField(5, 4 * U, (8 * U) \div 10)}

VARIABLES
    island,         \* hm: W, H, this.size and the field
    shorePc,        \* where _conformUnderwaterToCircularBasin is
    segments,       \* the segments array
    segIndex,       \* segments consumed by the loop that fills hmap
    hmap,           \* the Map, as its entries [h, list] in insertion order
    visited,        \* the visited Set
    entryIndex,     \* entries consumed by the loop over hmap.entries()
    walk,           \* Null, or the locals h, prev and loop of a walk, and the keys h has held
    loops,          \* the loops array
    centres         \* <<cx, cy>> of the loops the skirt loop has passed

shoreVars ==
    <<island, shorePc, segments, segIndex, hmap, visited, entryIndex, walk, loops, centres>>

ShoreInit ==
    /\ island \in IslandChoices
    /\ shorePc = "marchingSquares"
    /\ segments = <<>>
    /\ segIndex = 0
    /\ hmap = <<>>
    /\ visited = {}
    /\ entryIndex = 0
    /\ walk = Null
    /\ loops = <<>>
    /\ centres = <<>>

\* step 2: the marching squares over all cells
March ==
    /\ shorePc = "marchingSquares"
    /\ segments' = MarchingSquares(island)
    /\ shorePc' = "connect"
    /\ UNCHANGED <<island, segIndex, hmap, visited, entryIndex, walk, loops, centres>>

\* one pass of for (const s of segments)
Connect ==
    /\ shorePc = "connect"
    /\ segIndex < Len(segments)
    /\ hmap' = AddSegment(hmap, segments[segIndex + 1])
    /\ segIndex' = segIndex + 1
    /\ UNCHANGED <<island, shorePc, segments, visited, entryIndex, walk, loops, centres>>

\* the loop over segments is done
Connected ==
    /\ shorePc = "connect"
    /\ segIndex >= Len(segments)
    /\ shorePc' = "walk"
    /\ UNCHANGED <<island, segments, segIndex, hmap, visited, entryIndex, walk, loops, centres>>

\* for (const [hStart, nbrs] of hmap.entries()): an entry that is skipped
SkipEntry ==
    /\ shorePc = "walk"
    /\ walk = Null
    /\ entryIndex < Len(hmap)
    /\ hmap[entryIndex + 1].h \in visited \/ Len(hmap[entryIndex + 1].list) = 0
    /\ entryIndex' = entryIndex + 1
    /\ UNCHANGED <<island, shorePc, segments, segIndex, hmap, visited, walk, loops, centres>>

\* an entry from which a walk starts
StartWalk ==
    /\ shorePc = "walk"
    /\ walk = Null
    /\ entryIndex < Len(hmap)
    /\ ~(hmap[entryIndex + 1].h \in visited \/ Len(hmap[entryIndex + 1].list) = 0)
    /\ walk' = [h |-> hmap[entryIndex + 1].h, prev |-> <<>>, loop |-> <<>>, keys |-> <<>>]
    /\ UNCHANGED <<island, shorePc, segments, segIndex, hmap, visited, entryIndex, loops, centres>>

\* one pass of while (!visited.has(h)); hmap.get(h) is undefined for a key
\* the Map does not hold, and list[0] then throws
WalkStep ==
    /\ shorePc = "walk"
    /\ walk # Null
    /\ walk.h \notin visited
    /\ visited' = visited \cup {walk.h}
    /\ IF KeyIndex(hmap, walk.h, 1) = 0
       THEN /\ shorePc' = "threw"
            /\ walk' = [walk EXCEPT !.loop = Append(@, Decode(walk.h)),
                                    !.keys = Append(@, walk.h)]
       ELSE /\ shorePc' = shorePc
            /\ walk' = [h |-> LET next == NextPoint(hmap[KeyIndex(hmap, walk.h, 1)].list,
                                                    walk.prev)
                              IN  hash(next[1], next[2]),
                        prev |-> Decode(walk.h),
                        loop |-> Append(walk.loop, Decode(walk.h)),
                        keys |-> Append(walk.keys, walk.h)]
    /\ UNCHANGED <<island, segments, segIndex, hmap, entryIndex, loops, centres>>

\* the while loop ends: if (loop.length > 2) loops.push(loop)
EndWalk ==
    /\ shorePc = "walk"
    /\ walk # Null
    /\ walk.h \in visited
    /\ loops' = IF Len(walk.loop) > 2 THEN Append(loops, walk.loop) ELSE loops
    /\ walk' = Null
    /\ entryIndex' = entryIndex + 1
    /\ UNCHANGED <<island, shorePc, segments, segIndex, hmap, visited, centres>>

\* the loop over the entries is done: return when there is no loop, else go
\* on to the skirt
Walked ==
    /\ shorePc = "walk"
    /\ walk = Null
    /\ entryIndex >= Len(hmap)
    /\ shorePc' = IF Len(loops) = 0 THEN "noLoops" ELSE "skirt"
    /\ UNCHANGED <<island, segments, segIndex, hmap, visited, entryIndex, walk, loops, centres>>

RECURSIVE SumCoordinate(_, _, _)
\* loop.reduce((s, p) => s + p[c], 0), over the first k points
SumCoordinate(loop, c, k) ==
    IF k = 0 THEN 0 ELSE SumCoordinate(loop, c, k - 1) + loop[k][c]

\* cx, cy of a loop
LoopCentre(loop) ==
    <<RoundDiv(SumCoordinate(loop, 1, Len(loop)), Len(loop)),
      RoundDiv(SumCoordinate(loop, 2, Len(loop)), Len(loop))>>

\* one pass of for (const loop of loops): the centre the rings are built about
SkirtLoop ==
    /\ shorePc = "skirt"
    /\ Len(centres) < Len(loops)
    /\ centres' = Append(centres, LoopCentre(loops[Len(centres) + 1]))
    /\ UNCHANGED <<island, shorePc, segments, segIndex, hmap, visited, entryIndex, walk, loops>>

\* every loop has its skirt
Skirted ==
    /\ shorePc = "skirt"
    /\ Len(centres) >= Len(loops)
    /\ shorePc' = "done"
    /\ UNCHANGED <<island, segments, segIndex, hmap, visited, entryIndex, walk, loops, centres>>

\* ---- C7: a round island about the origin yields one loop about the origin
\* For a field height = R - distance from the centre with R > 0, on a grid
\* centred on the origin, once the loops are stitched and their centres taken
\* there is exactly one loop, and its centre is within one grid cell of the
\* origin in both coordinates.
RoundIslandOneLoopAtCentre ==
    (island # Null /\ island.R > 0 /\ shorePc = "done") =>
        /\ Len(loops) = 1
        /\ Abs(centres[1][1]) <= RoundDiv(island.size, island.W - 1)
        /\ Abs(centres[1][2]) <= RoundDiv(island.size, island.W - 1)

\* _conformUnderwaterToCircularBasin() of _buildTerrain: the field of the
\* height map, height - waterline with the waterline 0
ConformBegin ==
    /\ pc = "conformBasin"
    /\ shorePc = "idle"
    /\ island' = [W |-> heightMap.xValues, H |-> heightMap.yValues, size |-> size,
                  field |-> [k \in DOMAIN heightMap.values |-> heightMap.values[k] - 0]]
    /\ shorePc' = "marchingSquares"
    /\ UNCHANGED <<segments, segIndex, hmap, visited, entryIndex, walk, loops, centres>>
    /\ UNCHANGED terrainVars

\* a return that writes a skirt whatever the walk found
ConformedMeshAlways(m, state, cs) == [m EXCEPT !.skirtCentres = Append(cs, <<0, 0>>)]

\* the mesh at the return: if (!loops.length) return leaves it alone, else
\* updateVerticesData and updateIndices give it the skirts
ConformedMesh(m, state, cs) ==
    IF state = "noLoops" THEN m ELSE [m EXCEPT !.skirtCentres = cs]

\* it returns: without a loop the mesh is left as it was, else the mesh is
\* updated with the skirts about the centres
ConformEnd ==
    /\ pc = "conformBasin"
    /\ shorePc \in {"noLoops", "done"}
    /\ mesh' = ConformedMesh(mesh, shorePc, centres)
    /\ pc' = NextStage(pc)
    /\ stageLog' = Append(stageLog, pc)
    /\ island' = Null
    /\ shorePc' = "idle"
    /\ segments' = <<>>
    /\ segIndex' = 0
    /\ hmap' = <<>>
    /\ visited' = {}
    /\ entryIndex' = 0
    /\ walk' = Null
    /\ loops' = <<>>
    /\ centres' = <<>>
    /\ UNCHANGED <<size, subdivisions, liveMeshes, thisHeightMap, applyLog, blurLog, volcanoLog, traceLog, erodeSteps, seed, params, random, heightMap, dropIndex, trace,
                   draws, coastalLog, lastBuild>>

\* a Landmass whose height map is the field of the island, its mesh built,
\* at the call of _conformUnderwaterToCircularBasin
ShoreTerrain ==
    /\ size = island.size
    /\ subdivisions = island.W - 1
    /\ seed = 0
    /\ params = DefaultParams
    /\ heightMap = [xValues |-> island.W, yValues |-> island.H,
                    resolution |-> Resolution(island.size, island.W - 1),
                    values |-> island.field, maxHeight |-> MaxHeight(island.field)]
    /\ mesh = BuiltMesh(heightMap)
    /\ pc = "conformBasin"
    /\ random = Null
    /\ dropIndex = 0
    /\ trace = Null
    /\ stageLog = SubSeq(StageOrder, 1, 5)
    /\ draws = 0
    /\ coastalLog = Null
    /\ lastBuild = Null
    /\ liveMeshes = 1
    /\ thisHeightMap = "current"
    /\ applyLog = <<>>
    /\ blurLog = Null
    /\ volcanoLog = Null
    /\ traceLog = Null
    /\ erodeSteps = 0

\* ---- C15: without a loop the mesh is left as built
\* When the walk has found no loop, the skirt generation returns without an
\* error, the build goes on, and the position, colour and index buffers of
\* the mesh (and so the normals computed from them) are those the surface
\* mesh builder produced, with no skirt added.
NoLoopLeavesMesh ==
    [][(shorePc = "noLoops" /\ shorePc' = "idle")
       => (/\ pc' = "built"
           /\ mesh' = mesh
           /\ mesh' = BuiltMesh(heightMap))]_<<terrainVars, shoreVars>>

\* the skirt generation has returned for an island with every cell below the
\* waterline, and the mesh is the one built
NoLoopLeavesMeshWitness ==
    /\ pc = "built"
    /\ stageLog = StageOrder
    /\ heightMap # Null
    /\ \A k \in DOMAIN heightMap.values : heightMap.values[k] <= 0
    /\ mesh = BuiltMesh(heightMap)

\* ---- C16: one live island mesh, of the latest terrain
\* Through every build and rebuild there is at most one live island mesh, and
\* it is the one Landmass.mesh holds; while the stages of a build or rebuild
\* run up to the mesh builder no island mesh is alive (the previous one was
\* disposed first); and whenever a build has ended, Landmass.heightMap is the
\* terrain just generated and Landmass.mesh is the mesh built from it.
OneMeshOfLatestTerrain ==
    /\ liveMeshes <= 1
    /\ liveMeshes = (IF mesh # Null THEN 1 ELSE 0)
    /\ pc \in {"createHeightMap", "erodeCoastal", "createVolcanoes", "erodeHydraulic",
               "buildMesh"} => liveMeshes = 0
    /\ pc = "built" =>
           /\ thisHeightMap = "current"
           /\ mesh # Null
           /\ mesh.positionsY = heightMap.values

\* a rebuild with another seed has ended: one mesh, of the new terrain, which
\* differs from the terrain before
OneMeshOfLatestTerrainWitness ==
    /\ pc = "built"
    /\ lastBuild # Null
    /\ lastBuild.seed # seed
    /\ lastBuild.values # heightMap.values
    /\ liveMeshes = 1
    /\ mesh.positionsY = heightMap.values

\* ------------------------------------------------------------ click-to-plant

\* Scalar.Clamp(v, 0, 1)
Clamp01(v) == Max(0, Min(U, v))

\* Scalar.SmoothStep(from, to, tx) of the engine: t = Clamp(tx),
\* t = -2t^3 + 3t^2, to * t + from * (1 - t)
SmoothStep(from, to, tx) ==
    LET t == Clamp01(tx)
        t2 == Fmul(t, t)
        s == 3 * t2 - 2 * Fmul(t2, t)
    IN  Fmul(to, s) + Fmul(from, U - s)

\* food left as computed, without the clamp
FoodUnclamped(n, altitude) ==
    Fmul((6 * U) \div 10 + Fmul(n, (4 * U) \div 10),
         SmoothStep(U \div 10, (15 * U) \div 10, (22 * U) \div 10 - altitude))

\* food of a placement, from n = simpleNoise2D(pos.x, pos.z) and altitude = pos.y
Food(n, altitude) == Clamp01(FoodUnclamped(n, altitude))

\* const ctx = { altitude, food, moisture: (n + 2) / 4, fertility: food }
Context(n, altitude) ==
    LET food == Food(n, altitude)
    IN  [altitude |-> altitude, food |-> food, moisture |-> (n + 2 * U) \div 4,
         fertility |-> food]

\* the tap handler takes every slope
NeverTooSteep(normalY, threshold) == FALSE

\* if (normal?.y < 0.5) return, and < 0.75 in addRandomPlant
TooSteep(normalY, threshold) == normalY < threshold

\* the threshold of the tap handler, 0.5, and that of addRandomPlant, 0.75
Threshold(type) == IF type = "tap" THEN U \div 2 ELSE (75 * U) \div 100

\* if (pos.y < 0.25) return, in addRandomPlant only
TooLow(altitude) == altitude < (25 * U) \div 100

\* a selection with a threshold moved
SelectArchetypeShifted(food, r) ==
    IF food < (35 * U) \div 100
    THEN IF r < (5 * U) \div 10 THEN "Palm" ELSE "Bush"
    ELSE IF food < (7 * U) \div 10
    THEN IF r < (3 * U) \div 10 THEN "Palm"
         ELSE IF r < (75 * U) \div 100 THEN "Tree" ELSE "Bush"
    ELSE IF r < (4 * U) \div 10 THEN "Tree"
         ELSE IF r < (7 * U) \div 10 THEN "Palm"
         ELSE IF r < (9 * U) \div 10 THEN "FlowerCluster" ELSE "Flower"

\* the class the handler's if chain constructs
SelectArchetype(food, r) ==
    IF food < (35 * U) \div 100
    THEN IF r < (6 * U) \div 10 THEN "Palm" ELSE "Bush"
    ELSE IF food < (7 * U) \div 10
    THEN IF r < (3 * U) \div 10 THEN "Palm"
         ELSE IF r < (75 * U) \div 100 THEN "Tree" ELSE "Bush"
    ELSE IF r < (4 * U) \div 10 THEN "Tree"
         ELSE IF r < (7 * U) \div 10 THEN "Palm"
         ELSE IF r < (9 * U) \div 10 THEN "FlowerCluster" ELSE "Flower"

\* what the constructor of the class does with the scene the handler passes:
\* Tree calls scene.getAridity, which nothing defines on the scene (Palm
\* calls scene.getAridity?.() and falls back)
Construct(archetype) == IF archetype = "Tree" THEN "TypeError" ELSE "constructed"

\* const s = 3.5 + ctx.food * 3.5
SpawnScale(food) == (35 * U) \div 10 + Fmul(food, (35 * U) \div 10)

\* Animator.easeOutBack(t): 1 + --t * t * ((s + 1) * t + s), s = 1.70158
easeOutBack(t) ==
    LET c == 17016
        t1 == t - U
    IN  U + Fmul(Fmul(t1, t1), Fmul(c + U, t1) + c)

\* the key of frame f of animateProperty(node, 'scaling', 0, 1, duration):
\* from + (to - from) * e with e = easeFn(f / duration)
ScaleKey(f, duration) == 0 + Fmul(U - 0, easeOutBack(RoundDiv(f * U, duration)))

\* the duration the handler passes to popScale
PopDuration == 35

\* entities on the island at a time
MaxEntities == 1

\* animation frames between two renders
FrameStep == 12

\* simpleNoise2D is a sum of two sines, from -2 to 2
NoiseChoices == {-2 * U, -8750, -4062, 6875, 2 * U}

\* pos.y of a pick on the island mesh: on the skirt below the water, and on
\* a slope of the island
AltitudeChoices == {-U, (17 * U) \div 10}

\* the y of the normal at the picked point
NormalChoices == {4999, 5000, 7499, 7500}

\* Math.random() is in [0, 1)
RandomChoices ==
    {2999, 3000, 3999, 4000, 5999, 6000, 6999, 7000, 7499, 7500, 8999, 9000}

\* the context of each position the handlers are given
Contexts == [n \in NoiseChoices, altitude \in AltitudeChoices |-> Context(n, altitude)]

VARIABLES
    entities,       \* the entities of the handlers: archetype, food, group scale, animation
    lastTap         \* Null, or what the last pointer event or key press did

placeVars == <<entities, lastTap>>

PlaceInit ==
    /\ entities = <<>>
    /\ lastTap = Null

\* if (pointerInfo.type !== PointerEventTypes.POINTERTAP) return
OtherPointerEvent ==
    /\ lastTap' = [type |-> "other", accepted |-> FALSE, error |-> "none"]
    /\ UNCHANGED entities

\* if (!groundPick?.hit) return, and if (!pick?.hit) return
TapMisses(type) ==
    /\ lastTap' = [type |-> type, hit |-> FALSE, accepted |-> FALSE, error |-> "none"]
    /\ UNCHANGED entities

\* if (pos.y < 0.25) return
KeyTooLow(altitude) ==
    /\ TooLow(altitude)
    /\ lastTap' = [type |-> "key", hit |-> TRUE, altitude |-> altitude, below |-> FALSE,
                   accepted |-> FALSE, error |-> "none"]
    /\ UNCHANGED entities

\* the return on a slope, of the tap handler and of addRandomPlant
TapOnSlope(type, altitude, normalY) ==
    /\ type = "key" => ~TooLow(altitude)
    /\ TooSteep(normalY, Threshold(type))
    /\ lastTap' = [type |-> type, hit |-> TRUE, altitude |-> altitude,
                   below |-> normalY < Threshold(type), accepted |-> FALSE, error |-> "none"]
    /\ UNCHANGED entities

\* the rest of either handler: the context, the draw, the constructor, then
\* setAll(0), popScale (setAll(0) and the timer), setAll(s)
TapPlants(type, altitude, normalY, n, r) ==
    /\ Len(entities) < MaxEntities
    /\ type = "key" => ~TooLow(altitude)
    /\ ~TooSteep(normalY, Threshold(type))
    /\ LET ctx == Contexts[n, altitude]
           archetype == SelectArchetype(ctx.food, r)
           built == Construct(archetype) # "TypeError"
       IN  /\ lastTap' = [type |-> type, hit |-> TRUE, altitude |-> altitude,
                          below |-> normalY < Threshold(type), accepted |-> TRUE,
                          n |-> n, ctx |-> ctx, food |-> ctx.food, r |-> r,
                          selected |-> archetype,
                          error |-> IF built THEN "none" ELSE "TypeError",
                          created |-> IF built THEN 1 ELSE 0]
           /\ entities' = IF built
                          THEN Append(entities,
                                      [archetype |-> archetype, food |-> ctx.food,
                                       scale |-> SpawnScale(ctx.food), phase |-> "timer",
                                       frame |-> 0])
                          ELSE entities

Tap ==
    \E altitude \in AltitudeChoices, normalY \in NormalChoices, n \in NoiseChoices,
       r \in RandomChoices :
        TapPlants("tap", altitude, normalY, n, r)

\* the space bar: addRandomPlant()
AddRandomPlant ==
    \E altitude \in AltitudeChoices, normalY \in NormalChoices, n \in NoiseChoices,
       r \in RandomChoices :
        TapPlants("key", altitude, normalY, n, r)

\* the callback of popScale's setTimeout: animateProperty sets the keys and
\* begins the animation
TimerFires(e) ==
    /\ entities[e].phase = "timer"
    /\ entities' = [entities EXCEPT ![e].phase = "animating", ![e].frame = 0]
    /\ UNCHANGED lastTap

\* a render while the animation runs: the scaling takes the key of the frame
\* reached, and the animation ends on its last frame
Render(e) ==
    /\ entities[e].phase = "animating"
    /\ LET f == Min(entities[e].frame + FrameStep, PopDuration)
       IN  entities' = [entities EXCEPT
                           ![e].frame = f,
                           ![e].scale = ScaleKey(f, PopDuration),
                           ![e].phase = IF f = PopDuration THEN "finished" ELSE "animating"]
    /\ UNCHANGED lastTap

\* ---- C8: the archetype follows the table of food and the draw
\* Every accepted tap selects one of the five archetypes, the one the table
\* gives for its food and its draw r: below food 0.35 Palm for r < 0.6, else
\* Bush; from 0.35 and below 0.7 Palm for r < 0.3, Tree for 0.3 <= r < 0.75,
\* else Bush; from 0.7 Tree for r < 0.4, Palm for 0.4 <= r < 0.7,
\* FlowerCluster for 0.7 <= r < 0.9, else Flower. At food 0.2 Palm is
\* selected exactly for r < 0.6.
SelectionFollowsTable ==
    (lastTap # Null /\ lastTap.accepted) =>
        LET food == lastTap.food
            r == lastTap.r
            a == lastTap.selected
            low == food < 3500
            mid == 3500 <= food /\ food < 7000
            high == food >= 7000
        IN  /\ a \in {"Palm", "Bush", "Tree", "FlowerCluster", "Flower"}
            /\ (low /\ r < 6000) => a = "Palm"
            /\ (low /\ r >= 6000) => a = "Bush"
            /\ (mid /\ r < 3000) => a = "Palm"
            /\ (mid /\ 3000 <= r /\ r < 7500) => a = "Tree"
            /\ (mid /\ r >= 7500) => a = "Bush"
            /\ (high /\ r < 4000) => a = "Tree"
            /\ (high /\ 4000 <= r /\ r < 7000) => a = "Palm"
            /\ (high /\ 7000 <= r /\ r < 9000) => a = "FlowerCluster"
            /\ (high /\ r >= 9000) => a = "Flower"
            /\ food = 2000 => (a = "Palm" <=> r < 6000)

\* a tap at food 0.2 whose draw is just below 0.6 has planted a Palm
SelectionFollowsTableWitness ==
    /\ lastTap # Null
    /\ lastTap.accepted
    /\ lastTap.food = 2000
    /\ lastTap.r = 5999
    /\ lastTap.selected = "Palm"
    /\ Len(entities) > 0
    /\ entities[Len(entities)].archetype = "Palm"

\* ---- C9: the scale the spawn animation ends on
\* Once the spawn animation of an entity has finished, the scale of its
\* group is 3.5 + food * 3.5, a value from 3.5 to 7.0.
SpawnAnimationEndsAtSpawnScale ==
    \A e \in 1 .. Len(entities) :
        entities[e].phase = "finished" =>
            /\ entities[e].scale = SpawnScale(entities[e].food)
            /\ (35 * U) \div 10 <= entities[e].scale
            /\ entities[e].scale <= 7 * U

\* ---- C10: an accepted tap plants the archetype selected
\* Every accepted tap ends without an error and has added exactly one
\* entity, of the archetype the selection gave.
AcceptedTapPlantsSelected ==
    (lastTap # Null /\ lastTap.accepted) =>
        /\ lastTap.error = "none"
        /\ lastTap.created = 1
        /\ Len(entities) > 0
        /\ entities[Len(entities)].archetype = lastTap.selected

\* ---- C11: a click below the water plants nothing
\* After a click whose picked point on the island mesh lies below the water
\* level 0, no plant has been created by that click.
UnderwaterTapPlantsNothing ==
    (lastTap # Null /\ lastTap.type = "tap" /\ lastTap.hit /\ lastTap.altitude < 0) =>
        (~lastTap.accepted \/ lastTap.created = 0)

ContextInRange ==
    (lastTap # Null /\ lastTap.accepted) =>
        /\ 0 <= lastTap.ctx.food /\ lastTap.ctx.food <= U
        /\ 0 <= lastTap.ctx.moisture /\ lastTap.ctx.moisture <= U
        /\ lastTap.ctx.fertility = lastTap.ctx.food

\* a placement where the product before the clamp is above 1: food is 1, and
\* the moisture is at its upper end
ContextInRangeWitness ==
    /\ lastTap # Null
    /\ lastTap.accepted
    /\ FoodUnclamped(lastTap.n, lastTap.altitude) > U
    /\ lastTap.ctx.food = U
    /\ lastTap.ctx.moisture = U
    /\ lastTap.ctx.fertility = U

\* ------------------------------------------------------------ the archetypes' random choices

\* Math.sin(a), by the cosine above
SinOf(a) ==
    LET t == (Fdiv(a, 31416) - U \div 2) % (2 * U)
    IN  IF t <= U THEN CosPi(t) ELSE CosPi(2 * U - t)

\* const seed = Math.sin(pos.x * 12.9898 + pos.z * 78.233) * 43758.5453;
\* let randState = (seed - Math.floor(seed)) * 1e6, with the digits kept here
SeedState(pos) ==
    LET s == Fmul(SinOf(Fmul(pos[1], 129898) + Fmul(pos[2], 782330)), 437585453)
    IN  (s % U) * 100

\* (a + b) % m for a, b < m, within 32 bits
AddMod(a, b, m) == IF a >= m - b THEN a - (m - b) ELSE a + b

\* twice h plus a when the bit is set, % m
MulModBit(h, a, bit, m) ==
    IF bit = 1 THEN AddMod(AddMod(h, h, m), a, m) ELSE AddMod(h, h, m)

RECURSIVE MulMod(_, _, _)
\* (a * b) % m, bit by bit of b
MulMod(a, b, m) ==
    IF b = 0 THEN 0 ELSE MulModBit(MulMod(a, b \div 2, m), a, b % 2, m)

RECURSIVE SeededChoices(_, _)
\* the first k values of rand(): randState = (randState * 16807) % 2147483647,
\* then (randState & 0x7fffffff) / 2147483647
SeededChoices(randState, k) ==
    IF k = 0 THEN <<>>
    ELSE LET next == MulMod(randState, 16807, 2147483647)
         IN  <<next \div 214749>> \o SeededChoices(next, k - 1)

\* no class has a generator of its own
NoSeededRand(archetype) == FALSE

\* the classes whose constructor defines rand() from the position; the
\* others call Math.random()
SeededRand(archetype) == archetype \in {"Tree", "Bush", "Flower"}

\* the random choices a constructor makes that are followed here
ChoiceCount == 2

\* what new Archetype(scene, pos, ctx) ends with, and the choices it made
\* before, given the values Math.random() would return
Instance(archetype, pos, mathRandom) ==
    IF Construct(archetype) = "TypeError"
    THEN [error |-> "TypeError", choices |-> <<>>]
    ELSE [error |-> "none",
          choices |-> IF SeededRand(archetype)
                      THEN SeededChoices(SeedState(pos), ChoiceCount)
                      ELSE mathRandom]

Archetypes == {"Tree", "Palm", "Bush", "Flower", "FlowerCluster", "Rock"}

\* world positions (x, z) of a construction
PositionChoices == {<<0, 0>>, <<U, 2 * U>>, <<-3 * U, 5 * U>>, <<12500, -7500>>}

\* the values Math.random() returns to one constructor
MathRandomChoices == [1 .. ChoiceCount -> {0, 4999, 9999}]

VARIABLES
    twins           \* Null, or two constructions of one archetype at one position

constructVars == <<twins>>

ConstructIdle == twins = Null

\* new Archetype(scene, pos, ctx)
ConstructFirst(archetype, pos, mathRandom) ==
    /\ twins = Null
    /\ twins' = [archetype |-> archetype, pos |-> pos, built |-> 1,
                 first |-> Instance(archetype, pos, mathRandom), firstRandom |-> mathRandom,
                 second |-> Null, secondRandom |-> <<>>]

\* new Archetype(scene, pos, ctx) again, with the same pos and ctx
ConstructSecond(mathRandom) ==
    /\ twins # Null
    /\ twins.built = 1
    /\ twins' = [twins EXCEPT !.built = 2,
                              !.second = Instance(twins.archetype, twins.pos, mathRandom),
                              !.secondRandom = mathRandom]

MaxOctaves == 6

\* influence falloffs of a call, from the least the slider gives
FalloffChoices == {1000, 2500, 3000, 4000, 5000, 6000, 7000, 7500, 8000, 9000}

\* the calls whose power iFalloff ** octaves the arithmetic here can hold
InfluenceInputs ==
    {c \in (1 .. MaxOctaves) \X FalloffChoices : c[2] > 1000 \/ c[1] <= 4}

VARIABLES
    influenceCall   \* a call of makeInfluences: its arguments, and the array once returned

influenceVars == <<influenceCall>>

InfluenceInit ==
    \E c \in InfluenceInputs :
        influenceCall = [octaves |-> c[1], falloff |-> c[2], returned |-> FALSE,
                         influences |-> <<>>]

\* no call of makeInfluences is followed
InfluenceIdle ==
    influenceCall = [octaves |-> 0, falloff |-> 0, returned |-> FALSE, influences |-> <<>>]

\* makeInfluences(octaves, falloff) runs and returns its array
CallMakeInfluences ==
    /\ influenceCall.octaves > 0
    /\ ~influenceCall.returned
    /\ influenceCall' = [influenceCall EXCEPT
                            !.returned = TRUE,
                            !.influences = MakeInfluences(influenceCall.octaves,
                                                          influenceCall.falloff)]

RECURSIVE SumOf(_)
SumOf(s) == IF s = <<>> THEN 0 ELSE s[1] + SumOf(Tail(s))

MaxChanges == 1

\* samplers of three by three cells: two scales, a level grid and a ramp
SamplerGrids ==
    {[xValues |-> 3, yValues |-> 3, resolution |-> r, values |-> v] :
        r \in {U, U \div 2},
        v \in {[i \in 0 .. 8 |-> 0], [i \in 0 .. 8 |-> ((i % 3) + (i \div 3)) * U]}}

\* coordinates of a call: below the grid, on cells, between cells, past the edge
CoordChoices == {-(U \div 4), 0, U \div 4, U \div 2, (3 * U) \div 4, U, (5 * U) \div 4, 2 * U}

\* deltas of a change
DeltaChoices == {U, -(U \div 2)}

VARIABLES
    samplerCall     \* the last call on a GridSampler: its arguments, the values before and after

samplerVars == <<samplerCall>>

\* new GridSampler(width, height, values, scale, 0)
SamplerInit ==
    \E g \in SamplerGrids :
        samplerCall = [op |-> "new", hm |-> g, x |-> 0, y |-> 0, delta |-> 0,
                       before |-> g.values, result |-> 0, changes |-> 0]

\* no GridSampler is followed
SamplerIdle == samplerCall = Null

\* sampler.sample(x, y)
CallSample(x, y) ==
    /\ samplerCall # Null
    /\ samplerCall' = [samplerCall EXCEPT
                          !.op = "sample", !.x = x, !.y = y, !.delta = 0,
                          !.before = samplerCall.hm.values,
                          !.result = GridSample(samplerCall.hm, x, y)]

\* sampler.change(x, y, delta)
CallChange(x, y, delta) ==
    /\ samplerCall # Null
    /\ samplerCall.changes < MaxChanges
    /\ samplerCall' = [samplerCall EXCEPT
                          !.op = "change", !.x = x, !.y = y, !.delta = delta,
                          !.before = samplerCall.hm.values,
                          !.result = 0,
                          !.changes = samplerCall.changes + 1,
                          !.hm = [samplerCall.hm EXCEPT
                                     !.values = GridChange(samplerCall.hm, x, y, delta)]]

\* ---- C18: a change is shared out by the weights of sample

\* the weight sample(x, y) gives the cell k: the sample of the grid that is 1 at
\* k and 0 elsewhere
CellWeight(hm, k, x, y) ==
    GridSample([hm EXCEPT !.values = [i \in DOMAIN hm.values |-> IF i = k THEN U ELSE 0]],
               x, y)

\* C18: change(x, y, delta) adds to every cell delta times the weight that
\* sample(x, y) gives the cell (to within the rounding of the products), so a
\* change at exact cell coordinates goes entirely to that cell.
ChangeUsesSampleWeights ==
    (samplerCall # Null /\ samplerCall.op = "change") =>
        \A k \in DOMAIN samplerCall.before :
            Abs((samplerCall.hm.values[k] - samplerCall.before[k])
                - Fmul(samplerCall.delta,
                       CellWeight(samplerCall.hm, k, samplerCall.x, samplerCall.y))) <= 2

\* ---- C29: a change stays in its four cells

\* (x, y) passes both early returns of sample and change, as the code tests it
InsideGrid(hm, x, y) ==
    /\ x >= 0
    /\ y >= 0
    /\ Floor(Fmul(x, SamplerScale(hm.resolution))) < hm.xValues - 1
    /\ Floor(Fmul(y, SamplerScale(hm.resolution))) < hm.yValues - 1

\* the indices of (xi, yi), (xi + 1, yi), (xi, yi + 1), (xi + 1, yi + 1)
FourCells(hm, x, y) ==
    LET xi == Floor(Fmul(x, SamplerScale(hm.resolution)))
        yi == Floor(Fmul(y, SamplerScale(hm.resolution)))
    IN  {xi + yi * hm.xValues, xi + 1 + yi * hm.xValues,
         xi + (yi + 1) * hm.xValues, xi + 1 + (yi + 1) * hm.xValues}

\* what the last call added to the cell k
Increment(k) == samplerCall.hm.values[k] - samplerCall.before[k]

RECURSIVE SumOver(_)
\* the sum of the increments of the cells in S
SumOver(S) ==
    IF S = {} THEN 0 ELSE LET k == CHOOSE c \in S : TRUE IN Increment(k) + SumOver(S \ {k})

\* C29: after a change(x, y, delta) inside the grid, the four cells about
\* (x, y) are four cells of the grid within the rows and columns xi, xi + 1
\* and yi, yi + 1, every other cell has the value it had, and the increments
\* of the four cells add up to delta (to within the rounding of the products).
ChangeStaysInFourCells ==
    (/\ samplerCall # Null
     /\ samplerCall.op = "change"
     /\ InsideGrid(samplerCall.hm, samplerCall.x, samplerCall.y)) =>
        LET hm == samplerCall.hm
            four == FourCells(hm, samplerCall.x, samplerCall.y)
        IN  /\ Cardinality(four) = 4
            /\ four \subseteq DOMAIN samplerCall.before
            /\ \A k \in four :
                   /\ k % hm.xValues
                          \in {Floor(Fmul(samplerCall.x, SamplerScale(hm.resolution))),
                               Floor(Fmul(samplerCall.x, SamplerScale(hm.resolution))) + 1}
                   /\ k \div hm.xValues < hm.yValues
            /\ \A k \in DOMAIN samplerCall.before \ four : Increment(k) = 0
            /\ Abs(SumOver(four) - samplerCall.delta) <= 2

\* a change inside the grid, between the cells, has raised or lowered all four
ChangeStaysInFourCellsWitness ==
    /\ samplerCall # Null
    /\ samplerCall.op = "change"
    /\ InsideGrid(samplerCall.hm, samplerCall.x, samplerCall.y)
    /\ \A k \in FourCells(samplerCall.hm, samplerCall.x, samplerCall.y) : Increment(k) # 0

\* ---- C19: outside the grid

\* (x, y) is outside the grid: x or y negative, or the scaled cell index at or
\* beyond width - 1 or height - 1
OutsideGrid(hm, x, y) ==
    \/ x < 0
    \/ y < 0
    \/ Floor(Fmul(x, SamplerScale(hm.resolution))) >= hm.xValues - 1
    \/ Floor(Fmul(y, SamplerScale(hm.resolution))) >= hm.yValues - 1

\* a droplet is in the loop of trace()
DropletTraced == pc = "erodeHydraulic" /\ trace # Null

\* the four coordinates sampleNormal samples for the droplet t
NormalCoords(hm, t) ==
    {<<t.x + t.ox - hm.resolution, t.y + t.oy>>, <<t.x + t.ox, t.y + t.oy - hm.resolution>>,
     <<t.x + t.ox + hm.resolution, t.y + t.oy>>, <<t.x + t.ox, t.y + t.oy + hm.resolution>>}

\* the next pass of the loop reads cells of the grid: one of its four samples
\* is inside
NormalReadsGrid(hm, t) == \E c \in NormalCoords(hm, t) : ~OutsideGrid(hm, c[1], c[2])

\* the values after the next pass of the loop of trace()
ValuesAfterPass ==
    TraceBody(params.erosionHydraulicParameters, heightMap.resolution, heightMap, trace).values

\* C19 as stated: at a droplet position outside the grid sample returns the
\* default 0 and change leaves every cell unchanged, and the droplet at such a
\* position neither reads terrain heights nor modifies the grid.
DropletOutsideInert ==
    (DropletTraced /\ OutsideGrid(heightMap, trace.x, trace.y)) =>
        /\ GridSample(heightMap, trace.x, trace.y) = 0
        /\ GridChange(heightMap, trace.x, trace.y, U) = heightMap.values
        /\ ~NormalReadsGrid(heightMap, trace)
        /\ (TraceContinues(params.erosionHydraulicParameters, heightMap, trace)
            => ValuesAfterPass = heightMap.values)

\* C19: at every coordinate of a droplet that is outside the grid (its
\* position, its previous position, the four coordinates of its normal) sample
\* returns the default 0 and change leaves every cell unchanged; a pass of the
\* loop whose previous position is outside modifies nothing, and a normal all
\* of whose samples are outside is flat and ends the trace.
OutsideCallsInert ==
    DropletTraced =>
        /\ \A c \in NormalCoords(heightMap, trace)
                    \cup {<<trace.x, trace.y>>, <<trace.xp, trace.yp>>} :
              OutsideGrid(heightMap, c[1], c[2]) =>
                  /\ GridSample(heightMap, c[1], c[2]) = 0
                  /\ GridChange(heightMap, c[1], c[2], U) = heightMap.values
        /\ (/\ OutsideGrid(heightMap, trace.xp, trace.yp)
            /\ TraceContinues(params.erosionHydraulicParameters, heightMap, trace))
           => ValuesAfterPass = heightMap.values
        /\ ~NormalReadsGrid(heightMap, trace)
           => ~TraceContinues(params.erosionHydraulicParameters, heightMap, trace)

\* a droplet that has left the grid past an edge, its previous position outside
\* too, still sampling a sloping normal inside: the pass it runs changes nothing
OutsideCallsInertWitness ==
    /\ DropletTraced
    /\ trace.i > 1
    /\ trace.x >= 0 /\ trace.y >= 0
    /\ OutsideGrid(heightMap, trace.x, trace.y)
    /\ OutsideGrid(heightMap, trace.xp, trace.yp)
    /\ NormalReadsGrid(heightMap, trace)
    /\ TraceContinues(params.erosionHydraulicParameters, heightMap, trace)
    /\ ValuesAfterPass = heightMap.values

\* ------------------------------------------------------------ the hydraulic pass on small grids

\* opts.size and opts.subdivisions of small islands: 16 and 25 cells
SmallLandmassOpts == {[size |-> U, subdivisions |-> 4], [size |-> U, subdivisions |-> 5]}

\* values of the dropsPerCell slider (0.1 to 1.0 in steps of 0.01)
DropsPerCellChoices == {U \div 10, (25 * U) \div 100, (4 * U) \div 10, U \div 2}

\* values of the volcano sliders: the defaults; a low threshold under a deep
\* crater limit; a level threshold (no amplitude) with the steepest crater
VolcanoChoices ==
    {DefaultVolcanoesParams,
     [DefaultVolcanoesParams EXCEPT !.volcanoThreshold = 0, !.volcanoMaxDepth = 5 * U],
     [DefaultVolcanoesParams EXCEPT !.volcanoThreshold = U \div 2,
                                    !.volcanoThresholdAmplitude = 0,
                                    !.volcanoMaxDepth = U \div 4,
                                    !.volcanoCraterScale = 3 * U]}

\* the Landmass constructor up to its call of _buildTerrain, on a small grid
SmallTerrainInit ==
    /\ \E o \in SmallLandmassOpts : size = o.size /\ subdivisions = o.subdivisions
    /\ seed \in 0 .. MaxSeed
    /\ \E d \in DropsPerCellChoices, v \in VolcanoChoices :
          params = [DefaultParams EXCEPT !.erosionHydraulicParameters.dropsPerCell = d,
                                         !.volcanoesParameters = v]
    /\ mesh = Null
    /\ pc = "createHeightMap"
    /\ random = Null
    /\ heightMap = Null
    /\ dropIndex = 0
    /\ trace = Null
    /\ stageLog = <<>>
    /\ draws = 0
    /\ coastalLog = Null
    /\ lastBuild = Null
    /\ liveMeshes = 0
    /\ thisHeightMap = "none"
    /\ applyLog = <<>>
    /\ blurLog = Null
    /\ volcanoLog = Null
    /\ traceLog = Null
    /\ erodeSteps = 0

\* ---- C20: the traces, then one blur

\* the log of n traces run one after another
RECURSIVE TracesLog(_)
TracesLog(n) == IF n = 0 THEN <<>> ELSE TracesLog(n - 1) \o <<"begin", "end">>

\* the least whole number not below dropsPerCell x (W - 1) x (H - 1)
TraceCount(prm, hm) ==
    (prm.dropsPerCell * (hm.xValues - 1) * (hm.yValues - 1) + U - 1) \div U

\* the hydraulic pass of this build has returned
HydraulicReturned == Len(stageLog) >= 4

\* C20 as stated: when apply() has returned it has run exactly
\* dropsPerCell x (W - 1) x (H - 1) traces one after another and then one blur.
ApplyRunsProductTraces ==
    HydraulicReturned =>
        \E n \in 0 .. Len(applyLog) :
            /\ n * U = Drops(params.erosionHydraulicParameters, heightMap)
            /\ applyLog = TracesLog(n) \o <<"blur">>

\* C20: apply() runs one trace for every whole i below
\* dropsPerCell x (W - 1) x (H - 1), that is the product rounded up to a whole
\* number, each trace ending before the next begins, and then exactly one
\* blur, which begins only when the last trace has ended; nothing of the pass
\* runs before the three stages ahead of it have returned.
ApplyRunsTracesThenBlur ==
    /\ Len(stageLog) < 3 => applyLog = <<>>
    /\ pc = "erodeHydraulic" =>
          \E k \in 0 .. TraceCount(params.erosionHydraulicParameters, heightMap) :
              \/ trace = Null /\ dropIndex = k /\ applyLog = TracesLog(k)
              \/ /\ trace # Null
                 /\ dropIndex = k
                 /\ k < TraceCount(params.erosionHydraulicParameters, heightMap)
                 /\ applyLog = TracesLog(k) \o <<"begin">>
    /\ HydraulicReturned =>
          applyLog = TracesLog(TraceCount(params.erosionHydraulicParameters, heightMap))
                     \o <<"blur">>

\* a pass that has returned where the product is not whole: 0.5 x 5 x 5 = 12.5
\* drops, 13 traces and the blur
ApplyRunsTracesThenBlurWitness ==
    /\ HydraulicReturned
    /\ params.erosionHydraulicParameters.dropsPerCell = U \div 2
    /\ heightMap.xValues = 6 /\ heightMap.yValues = 6
    /\ applyLog = TracesLog(13) \o <<"blur">>

\* ------------------------------------------------------------ claims on the passes

\* ---- C21: the blur averages the values from before the pass

\* the cell i of a grid w wide and h high is not on its one-cell border
Interior(i, w, h) ==
    /\ i % w >= 1 /\ i % w < w - 1
    /\ i \div w >= 1 /\ i \div w < h - 1

\* sixteen times the 3x3 weighted average about the cell i of the values v:
\* centre 4, edge neighbours 2 each, corner neighbours 1 each
Average16(v, i, w) ==
    4 * v[i]
    + 2 * (v[i - 1] + v[i + 1] + v[i - w] + v[i + w])
    + (v[i - w - 1] + v[i - w + 1] + v[i + w - 1] + v[i + w + 1])

\* C21: after the blur pass every interior cell holds the 3x3 weighted average
\* (centre 1/4, edges 1/8, corners 1/16) of the values the grid held before the
\* pass, to within the rounding of the three products, and every cell of the
\* one-cell border holds what it held before.
BlurAveragesOldValues ==
    blurLog # Null =>
        \A i \in DOMAIN blurLog :
            IF Interior(i, heightMap.xValues, heightMap.yValues)
            THEN Abs(16 * heightMap.values[i] - Average16(blurLog, i, heightMap.xValues)) <= 48
            ELSE heightMap.values[i] = blurLog[i]

\* a blur that changed an interior cell and the cell before it
BlurAveragesOldValuesWitness ==
    /\ blurLog # Null
    /\ \E i \in DOMAIN blurLog :
          /\ Interior(i, heightMap.xValues, heightMap.yValues)
          /\ Interior(i - 1, heightMap.xValues, heightMap.yValues)
          /\ Abs(heightMap.values[i] - blurLog[i]) > 100
          /\ Abs(heightMap.values[i - 1] - blurLog[i - 1]) > 100

\* ---- C22: the volcano pass only lowers

\* the perturbation of the threshold of the cell i: (2 * noise - 0.5) * amplitude
RimPerturbation(prm, rimNoise, hm, i) ==
    Fmul(2 * NoiseSample(rimNoise,
                         Fmul((i % hm.xValues) * hm.resolution, prm.volcanoThresholdScale),
                         Fmul((i \div hm.xValues) * hm.resolution, prm.volcanoThresholdScale))
         - U \div 2,
         prm.volcanoThresholdAmplitude)

\* max(volcanoThreshold, maxHeight - volcanoMaxDepth / volcanoCraterScale)
UnperturbedThreshold(prm, maxHeight) ==
    Max(prm.volcanoThreshold, maxHeight - Fdiv(prm.volcanoMaxDepth, prm.volcanoCraterScale))

\* C22: the volcano pass raises no cell; a cell above its perturbed threshold
\* by d > 0 ends at threshold - d * craterScale, every other cell keeps its
\* height; and the threshold of a cell is its perturbation added to
\* max(volcanoThreshold, maxHeight - volcanoMaxDepth / volcanoCraterScale)
\* (each to within the rounding of the products).
VolcanoOnlyLowers ==
    volcanoLog # Null =>
        \A i \in DOMAIN volcanoLog.before :
            /\ volcanoLog.after[i] <= volcanoLog.before[i]
            /\ IF volcanoLog.before[i] > volcanoLog.thresholds[i]
               THEN Abs(volcanoLog.after[i]
                        - (volcanoLog.thresholds[i]
                           - Fmul(volcanoLog.before[i] - volcanoLog.thresholds[i],
                                  params.volcanoesParameters.volcanoCraterScale))) <= 2
               ELSE volcanoLog.after[i] = volcanoLog.before[i]
            /\ Abs(volcanoLog.thresholds[i]
                   - (RimPerturbation(params.volcanoesParameters, volcanoLog.noise,
                                      heightMap, i)
                      + UnperturbedThreshold(params.volcanoesParameters,
                                             volcanoLog.maxHeight))) <= 2

\* a pass that cut a crater, its limit set by the depth below the highest cell,
\* and left another cell as it was
VolcanoOnlyLowersWitness ==
    /\ volcanoLog # Null
    /\ volcanoLog.maxHeight - Fdiv(params.volcanoesParameters.volcanoMaxDepth,
                                   params.volcanoesParameters.volcanoCraterScale)
       > params.volcanoesParameters.volcanoThreshold
    /\ \E i \in DOMAIN volcanoLog.before :
          /\ volcanoLog.before[i] > volcanoLog.thresholds[i] + 100
          /\ volcanoLog.after[i] < volcanoLog.thresholds[i]
    /\ \E i \in DOMAIN volcanoLog.before :
          /\ volcanoLog.before[i] > 0
          /\ volcanoLog.before[i] <= volcanoLog.thresholds[i]
          /\ volcanoLog.after[i] = volcanoLog.before[i]

\* ---- C23: every trace ends, and so does the hydraulic pass

\* C23: a trace never runs more than maxIterations iterations; when the normal
\* it samples is flat the trace ends there and the grid is as it was; every
\* trace that has begun ends, and the hydraulic pass, once begun, returns.
TracesTerminate ==
    /\ [](DropletTraced => trace.i <= params.erosionHydraulicParameters.maxIterations)
    /\ [][(DropletTraced /\ TraceNormal(heightMap, trace).y = U)
          => (trace' = Null /\ heightMap' = heightMap)]_terrainVars
    /\ (DropletTraced ~> ~DropletTraced)
    /\ (pc = "erodeHydraulic" ~> pc = "buildMesh")

\* a trace stopped by the limit, its normal still sloping, in a pass with
\* traces done before it
TracesTerminateWitness ==
    /\ DropletTraced
    /\ dropIndex > 0
    /\ trace.i = params.erosionHydraulicParameters.maxIterations
    /\ TraceNormal(heightMap, trace).y # U

\* ---- C28: the first iteration of a trace changes nothing

\* C28: while a trace has made at most one iteration the grid holds the
\* values the trace started from, and a trace that ends after no more than
\* one iteration leaves the grid with these values.
FirstIterationChangesNothing ==
    /\ []((DropletTraced /\ trace.i <= 1) => heightMap.values = traceLog)
    /\ [][(DropletTraced /\ trace.i <= 1 /\ trace' = Null)
          => heightMap'.values = traceLog]_terrainVars

\* a trace has made its first iteration, on a slope (the loop did not break),
\* with an erosion rate above 0, and its change fell inside the grid
FirstIterationChangesNothingWitness ==
    /\ DropletTraced
    /\ trace.i = 1
    /\ params.erosionHydraulicParameters.erosionRate > 0
    /\ ChangeInBounds(heightMap, trace.xp, trace.yp)
    /\ (trace.vx # 0 \/ trace.vy # 0)

\* ------------------------------------------------------------ claims on the shoreline

\* ---- C24: the walk goes on, away from the point it came from

\* the neighbours recorded for the key h
NeighboursOf(h) == hmap[KeyIndex(hmap, h, 1)].list

\* C24: when the walk has left a point with two recorded neighbours, having
\* come to it from another point, the key it goes on to is not the key it came
\* from; so no walk is over after two points, back where it started.
WalkGoesForward ==
    (/\ walk # Null
     /\ Len(walk.keys) >= 2
     /\ KeyIndex(hmap, walk.keys[Len(walk.keys)], 1) # 0
     /\ Len(NeighboursOf(walk.keys[Len(walk.keys)])) = 2)
    => walk.h # walk.keys[Len(walk.keys) - 1]

\* ---- C26: decoding a key gives back the endpoint

\* x snapped to the grid of 1 / inv
Snapped(x) == RoundTimesInv(x) * (U \div INV)

\* the key of the point pt, decoded as the walk decodes it
DecodedKey(pt) == Decode(hash(pt[1], pt[2]))

\* C26: for both endpoints of every segment the marching squares found,
\* of either sign, decoding the endpoint's key gives the endpoint snapped to
\* the grid of 0.001.
DecodeReturnsEndpoint ==
    \A k \in DOMAIN segments :
        /\ DecodedKey(<<segments[k][1], segments[k][2]>>)
               = <<Snapped(segments[k][1]), Snapped(segments[k][2])>>
        /\ DecodedKey(<<segments[k][3], segments[k][4]>>)
               = <<Snapped(segments[k][3]), Snapped(segments[k][4])>>

\* ---- C27: the crossings of the marching squares are all joined

\* mask 5 or mask 10: only two diagonally opposite corners are above water
Saddle(f, i, j) ==
    LET v00 == f.field[i + j * f.W]
        v10 == f.field[i + 1 + j * f.W]
        v11 == f.field[i + 1 + (j + 1) * f.W]
        v01 == f.field[i + (j + 1) * f.W]
    IN  \/ v00 > 0 /\ v11 > 0 /\ ~(v10 > 0) /\ ~(v01 > 0)
        \/ v10 > 0 /\ v01 > 0 /\ ~(v00 > 0) /\ ~(v11 > 0)

\* the two ends of a pushed segment
SegmentEnds(s) == IF HasSegment(s) THEN {<<s[1], s[2]>>, <<s[3], s[4]>>} ELSE {}

\* the segments that end in pt
Incident(pt) == {k \in DOMAIN segments : pt \in SegmentEnds(segments[k])}

\* pt lies on the outer edge of the grid
OnGridBoundary(f, pt) ==
    LET cell == RoundDiv(f.size, f.W - 1)
        half == Fmul(f.size, U \div 2)
    IN  \/ pt[1] = -half \/ pt[1] = (f.W - 1) * cell - half
        \/ pt[2] = -half \/ pt[2] = (f.H - 1) * cell - half

MarchingDone == island # Null /\ shorePc \in {"connect", "walk"}

\* C27: once the marching squares have run, every crossing of a cell's
\* edges that is not on the outer edge of the grid is an end of that cell's
\* segment and an end of exactly two segments, in saddle cells too.
CrossingsAllJoined ==
    MarchingDone =>
        \A i \in 0 .. island.W - 2, j \in 0 .. island.H - 2 :
            \A k \in DOMAIN Crossings(island, i, j) :
                LET pt == Crossings(island, i, j)[k]
                IN  ~OnGridBoundary(island, pt) =>
                        /\ pt \in SegmentEnds(CellSegment(island, i, j))
                        /\ Cardinality(Incident(pt)) = 2

\* ------------------------------------------------------------ the noise queries of a build

\* opts.size and opts.subdivisions of Landmasses: the default (size 25 at
\* resolution 0.1), small islands, and grids coarser than one unit
NoiseLandmassOpts ==
    {[size |-> 25 * U, subdivisions |-> 250], [size |-> U, subdivisions |-> 10],
     [size |-> U, subdivisions |-> 4], [size |-> 25 * U, subdivisions |-> 25],
     [size |-> 25 * U, subdivisions |-> 10], [size |-> 25 * U, subdivisions |-> 4]}

\* the CubicNoises a build makes: one per octave of the height map, then the
\* one of ErosionCoastal.apply and the one of Volcanoes.apply
NoisePasses ==
    {[kind |-> "octave", octave |-> k] : k \in 0 .. DefaultHeightMapParams.octaves - 1}
    \cup {[kind |-> "coastal", octave |-> 0], [kind |-> "rim", octave |-> 0]}

\* the cells whose query is followed: the corners, their neighbours and the
\* middle of the grid
CellChoices(values) == {0, 1, values \div 2, values - 2, values - 1}

RECURSIVE QueryScale(_, _, _)
\* scale in generate() when the octave is sampled: scale * resolution, times
\* scaleFalloff for every octave before
QueryScale(prm, resolution, octave) ==
    IF octave = 0 THEN Fmul(prm.scale, resolution)
    ELSE Fmul(QueryScale(prm, resolution, octave - 1), prm.scaleFalloff)

\* the first argument of new CubicNoise for n grid values a side (the second
\* is the same expression over yValues)
NoiseWidth(prm, pass, n, resolution) ==
    CASE pass.kind = "octave" ->
            Ceil(OctaveScale(prm.heightMapParameters, pass.octave) * n)
      [] pass.kind = "coastal" ->
            Ceil(Fmul(n * resolution, prm.erosionCoastalParameters.noiseScale))
      [] pass.kind = "rim" ->
            Ceil(Fmul(n * resolution, prm.volcanoesParameters.volcanoThresholdScale))

\* the coordinate at which the pass samples its noise for the grid index x
NoiseCoord(prm, pass, x, resolution) ==
    CASE pass.kind = "octave" ->
            x * QueryScale(prm.heightMapParameters, resolution, pass.octave)
      [] pass.kind = "coastal" ->
            Fmul(x * resolution, prm.erosionCoastalParameters.noiseScale)
      [] pass.kind = "rim" ->
            Fmul(x * resolution, prm.volcanoesParameters.volcanoThresholdScale)

\* this.values.length of new CubicNoise(width, height, .)
NoiseLength(width, height) == (width + 2) * (height + 2)

VARIABLES
    noiseQuery      \* the last noise query followed: the Landmass, the pass, the cell and what it reads

noiseVars == <<noiseQuery>>

\* a Landmass whose build is followed query by query
NoiseInit ==
    \E o \in NoiseLandmassOpts :
        noiseQuery = [op |-> "new", size |-> o.size, subdivisions |-> o.subdivisions,
                      pass |-> [kind |-> "octave", octave |-> 0], x |-> 0, y |-> 0,
                      length |-> 0, maxIndex |-> 0]

\* no noise query is followed
NoiseIdle == noiseQuery = Null

\* noise.sample(...) of the pass for the cell (x, y) of the grid
QueryNoise(pass, x, y) ==
    /\ noiseQuery # Null
    /\ LET resolution == Resolution(noiseQuery.size, noiseQuery.subdivisions)
           n == GridValues(noiseQuery.size, resolution)
           width == NoiseWidth(DefaultParams, pass, n, resolution)
       IN  /\ x < n
           /\ y < n
           /\ noiseQuery' = [noiseQuery EXCEPT
                                !.op = "sample", !.pass = pass, !.x = x, !.y = y,
                                !.length = NoiseLength(width, width),
                                !.maxIndex =
                                    NoiseMaxIndex([width |-> width],
                                                  NoiseCoord(DefaultParams, pass, x, resolution),
                                                  NoiseCoord(DefaultParams, pass, y, resolution))]

\* C25: every noise query of a build, whatever the size and the subdivisions
\* of the Landmass, reads no index beyond the values the constructor of the
\* noise filled.
NoiseReadsFilledValues ==
    (noiseQuery # Null /\ noiseQuery.op = "sample") => noiseQuery.maxIndex < noiseQuery.length

\* ------------------------------------------------------------ Water

MaxMeshes == 3

\* the names of the meshes added to the scene
MeshNames == {"island", "other"}

VARIABLES
    waterState,     \* "none", "live" (constructed) or "disposed" (dispose() has returned)
    observables,    \* the callbacks of the Water registered with each observable
    sceneMeshes,    \* the number of meshes in the scene besides the water's
    renderList,     \* the length of reflectionRTT.renderList as updateRenderLists left it
    islandLinked,   \* linkIsland has set the render lists to the island mesh
    lastNotified,   \* the observable that notified last
    lateCalls       \* the callbacks of the Water invoked since dispose() returned

waterVars ==
    <<waterState, observables, sceneMeshes, renderList, islandLinked, lastNotified, lateCalls>>

\* no Water is in the scene
WaterIdle ==
    /\ waterState = "none"
    /\ observables = [beforeRender |-> {}, resize |-> {}, newMeshAdded |-> {}, meshRemoved |-> {}]
    /\ sceneMeshes = 0
    /\ renderList = 0
    /\ islandLinked = FALSE
    /\ lastNotified = "none"
    /\ lateCalls = {}

\* the callbacks an observable invokes when it notifies
Notified(observable) == observables[observable]

\* what the callbacks invoked add to the record of calls after dispose()
LateCalls(invoked) == IF waterState = "disposed" THEN lateCalls \cup invoked ELSE lateCalls

\* new Water(scene, ...): the five registrations of the constructor and
\* the first updateRenderLists() (scene.meshes.forEach(linkIsland) finds the
\* island when it was added before)
NewWater ==
    /\ waterState = "none"
    /\ waterState' = "live"
    /\ observables' = [beforeRender |-> {"time"}, resize |-> {"resize"},
                       newMeshAdded |-> {"linkIsland", "updateOnAdded"},
                       meshRemoved |-> {"updateOnRemoved"}]
    /\ renderList' = sceneMeshes
    /\ UNCHANGED <<sceneMeshes, islandLinked, lastNotified, lateCalls>>

\* Water.dispose(): the render observer and the observer of linkIsland are
\* removed, the render targets, the material and the mesh are disposed
DisposeWater ==
    /\ waterState = "live"
    /\ waterState' = "disposed"
    /\ observables' = [observables EXCEPT !.beforeRender = @ \ {"time"},
                                          !.newMeshAdded = @ \ {"linkIsland"}]
    /\ UNCHANGED <<sceneMeshes, renderList, islandLinked, lastNotified, lateCalls>>

\* the scene renders a frame: onBeforeRenderObservable notifies
RenderFrame ==
    /\ lateCalls' = LateCalls(Notified("beforeRender"))
    /\ lastNotified' = "beforeRender"
    /\ UNCHANGED <<waterState, observables, sceneMeshes, renderList, islandLinked>>

\* the engine is resized: onResizeObservable notifies
ResizeEngine ==
    /\ lateCalls' = LateCalls(Notified("resize"))
    /\ lastNotified' = "resize"
    /\ UNCHANGED <<waterState, observables, sceneMeshes, renderList, islandLinked>>

\* a mesh is added to the scene: onNewMeshAddedObservable notifies; linkIsland
\* and updateRenderLists, where they are still registered, set the render lists
AddMesh(name) ==
    /\ sceneMeshes < MaxMeshes
    /\ sceneMeshes' = sceneMeshes + 1
    /\ lateCalls' = LateCalls(Notified("newMeshAdded"))
    /\ lastNotified' = "newMeshAdded"
    /\ islandLinked' = (islandLinked
                        \/ ("linkIsland" \in Notified("newMeshAdded") /\ name = "island"))
    /\ renderList' = IF "updateOnAdded" \in Notified("newMeshAdded")
                     THEN sceneMeshes + 1 ELSE renderList
    /\ UNCHANGED <<waterState, observables>>

\* a mesh is removed from the scene: onMeshRemovedObservable notifies
RemoveMesh ==
    /\ sceneMeshes > 0
    /\ sceneMeshes' = sceneMeshes - 1
    /\ lateCalls' = LateCalls(Notified("meshRemoved"))
    /\ lastNotified' = "meshRemoved"
    /\ renderList' = IF "updateOnRemoved" \in Notified("meshRemoved")
                     THEN sceneMeshes - 1 ELSE renderList
    /\ UNCHANGED <<waterState, observables, islandLinked>>

\* C30: once dispose() has returned, none of the callbacks the Water
\* registered is invoked, and its render lists are set no more.
DisposedWaterIsSilent ==
    waterState = "disposed" => lateCalls = {}

\* ------------------------------------------------------------ specification

\* no Landmass is being built
TerrainIdle ==
    /\ \E o \in LandmassOpts : size = o.size /\ subdivisions = o.subdivisions
    /\ seed = 0
    /\ params = DefaultParams
    /\ mesh = Null
    /\ pc = "idle"
    /\ random = Null
    /\ heightMap = Null
    /\ dropIndex = 0
    /\ trace = Null
    /\ stageLog = <<>>
    /\ draws = 0
    /\ coastalLog = Null
    /\ lastBuild = Null
    /\ liveMeshes = 0
    /\ thisHeightMap = "none"
    /\ applyLog = <<>>
    /\ blurLog = Null
    /\ volcanoLog = Null
    /\ traceLog = Null
    /\ erodeSteps = 0

\* no shoreline is being extracted
ShoreIdle ==
    /\ island = Null
    /\ shorePc = "idle"
    /\ segments = <<>>
    /\ segIndex = 0
    /\ hmap = <<>>
    /\ visited = {}
    /\ entryIndex = 0
    /\ walk = Null
    /\ loops = <<>>
    /\ centres = <<>>

\* nothing is planted
PlaceIdle ==
    /\ entities = <<>>
    /\ lastTap = Null

vars == <<terrainVars, shoreVars, placeVars, influenceVars, constructVars, samplerVars, noiseVars, waterVars>>

\* the build of a Landmass and its rebuilds
Init ==
    /\ TerrainInit /\ ShoreIdle /\ PlaceIdle /\ InfluenceIdle /\ ConstructIdle /\ SamplerIdle
    /\ NoiseIdle /\ WaterIdle

Next ==
    \/ CreateHeightMap /\ UNCHANGED <<shoreVars, placeVars, influenceVars, constructVars, samplerVars, noiseVars, waterVars>>
    \/ ErodeCoastal /\ UNCHANGED <<shoreVars, placeVars, influenceVars, constructVars, samplerVars, noiseVars, waterVars>>
    \/ CreateVolcanoes /\ UNCHANGED <<shoreVars, placeVars, influenceVars, constructVars, samplerVars, noiseVars, waterVars>>
    \/ BeginTrace /\ UNCHANGED <<shoreVars, placeVars, influenceVars, constructVars, samplerVars, noiseVars, waterVars>>
    \/ TraceIterate /\ UNCHANGED <<shoreVars, placeVars, influenceVars, constructVars, samplerVars, noiseVars, waterVars>>
    \/ EndTrace /\ UNCHANGED <<shoreVars, placeVars, influenceVars, constructVars, samplerVars, noiseVars, waterVars>>
    \/ Blur /\ UNCHANGED <<shoreVars, placeVars, influenceVars, constructVars, samplerVars, noiseVars, waterVars>>
    \/ BuildMesh /\ UNCHANGED <<shoreVars, placeVars, influenceVars, constructVars, samplerVars, noiseVars, waterVars>>
    \/ ConformBegin /\ UNCHANGED <<placeVars, influenceVars, constructVars, samplerVars, noiseVars, waterVars>>
    \/ March /\ UNCHANGED <<terrainVars, placeVars, influenceVars, constructVars, samplerVars, noiseVars, waterVars>>
    \/ Connect /\ UNCHANGED <<terrainVars, placeVars, influenceVars, constructVars, samplerVars, noiseVars, waterVars>>
    \/ Connected /\ UNCHANGED <<terrainVars, placeVars, influenceVars, constructVars, samplerVars, noiseVars, waterVars>>
    \/ SkipEntry /\ UNCHANGED <<terrainVars, placeVars, influenceVars, constructVars, samplerVars, noiseVars, waterVars>>
    \/ StartWalk /\ UNCHANGED <<terrainVars, placeVars, influenceVars, constructVars, samplerVars, noiseVars, waterVars>>
    \/ WalkStep /\ UNCHANGED <<terrainVars, placeVars, influenceVars, constructVars, samplerVars, noiseVars, waterVars>>
    \/ EndWalk /\ UNCHANGED <<terrainVars, placeVars, influenceVars, constructVars, samplerVars, noiseVars, waterVars>>
    \/ Walked /\ UNCHANGED <<terrainVars, placeVars, influenceVars, constructVars, samplerVars, noiseVars, waterVars>>
    \/ SkirtLoop /\ UNCHANGED <<terrainVars, placeVars, influenceVars, constructVars, samplerVars, noiseVars, waterVars>>
    \/ Skirted /\ UNCHANGED <<terrainVars, placeVars, influenceVars, constructVars, samplerVars, noiseVars, waterVars>>
    \/ ConformEnd /\ UNCHANGED <<placeVars, influenceVars, constructVars, samplerVars, noiseVars, waterVars>>
    \/ Rebuild /\ UNCHANGED <<shoreVars, placeVars, influenceVars, constructVars, samplerVars, noiseVars, waterVars>>
    \/ RandomizeSeed /\ UNCHANGED <<shoreVars, placeVars, influenceVars, constructVars, samplerVars, noiseVars, waterVars>>

Spec == Init /\ [][Next]_vars

\* the shoreline of a synthetic round island
ShoreSpecInit ==
    /\ ShoreInit /\ ShoreTerrain /\ PlaceIdle /\ InfluenceIdle /\ ConstructIdle /\ SamplerIdle
    /\ NoiseIdle /\ WaterIdle

ShoreSpecNext ==
    \/ March /\ UNCHANGED <<terrainVars, placeVars, influenceVars, constructVars, samplerVars, noiseVars, waterVars>>
    \/ Connect /\ UNCHANGED <<terrainVars, placeVars, influenceVars, constructVars, samplerVars, noiseVars, waterVars>>
    \/ Connected /\ UNCHANGED <<terrainVars, placeVars, influenceVars, constructVars, samplerVars, noiseVars, waterVars>>
    \/ SkipEntry /\ UNCHANGED <<terrainVars, placeVars, influenceVars, constructVars, samplerVars, noiseVars, waterVars>>
    \/ StartWalk /\ UNCHANGED <<terrainVars, placeVars, influenceVars, constructVars, samplerVars, noiseVars, waterVars>>
    \/ WalkStep /\ UNCHANGED <<terrainVars, placeVars, influenceVars, constructVars, samplerVars, noiseVars, waterVars>>
    \/ EndWalk /\ UNCHANGED <<terrainVars, placeVars, influenceVars, constructVars, samplerVars, noiseVars, waterVars>>
    \/ Walked /\ UNCHANGED <<terrainVars, placeVars, influenceVars, constructVars, samplerVars, noiseVars, waterVars>>
    \/ SkirtLoop /\ UNCHANGED <<terrainVars, placeVars, influenceVars, constructVars, samplerVars, noiseVars, waterVars>>
    \/ Skirted /\ UNCHANGED <<terrainVars, placeVars, influenceVars, constructVars, samplerVars, noiseVars, waterVars>>
    \/ ConformEnd /\ UNCHANGED <<placeVars, influenceVars, constructVars, samplerVars, noiseVars, waterVars>>

ShoreSpec == ShoreSpecInit /\ [][ShoreSpecNext]_vars

\* the pointer handler of the scene and the animations it starts
PlaceSpecInit ==
    /\ PlaceInit /\ TerrainIdle /\ ShoreIdle /\ InfluenceIdle /\ ConstructIdle /\ SamplerIdle
    /\ NoiseIdle /\ WaterIdle

PlaceSpecNext ==
    \/ OtherPointerEvent /\ UNCHANGED <<terrainVars, shoreVars, influenceVars, constructVars, samplerVars, noiseVars, waterVars>>
    \/ \E type \in {"tap", "key"} : TapMisses(type) /\ UNCHANGED <<terrainVars, shoreVars, influenceVars, constructVars, samplerVars, noiseVars, waterVars>>
    \/ \E altitude \in AltitudeChoices : KeyTooLow(altitude) /\ UNCHANGED <<terrainVars, shoreVars, influenceVars, constructVars, samplerVars, noiseVars, waterVars>>
    \/ \E type \in {"tap", "key"}, altitude \in AltitudeChoices, normalY \in NormalChoices :
            TapOnSlope(type, altitude, normalY) /\ UNCHANGED <<terrainVars, shoreVars, influenceVars, constructVars, samplerVars, noiseVars, waterVars>>
    \/ Tap /\ UNCHANGED <<terrainVars, shoreVars, influenceVars, constructVars, samplerVars, noiseVars, waterVars>>
    \/ AddRandomPlant /\ UNCHANGED <<terrainVars, shoreVars, influenceVars, constructVars, samplerVars, noiseVars, waterVars>>
    \/ \E e \in 1 .. Len(entities) : TimerFires(e) /\ UNCHANGED <<terrainVars, shoreVars, influenceVars, constructVars, samplerVars, noiseVars, waterVars>>
    \/ \E e \in 1 .. Len(entities) : Render(e) /\ UNCHANGED <<terrainVars, shoreVars, influenceVars, constructVars, samplerVars, noiseVars, waterVars>>

PlaceSpec == PlaceSpecInit /\ [][PlaceSpecNext]_vars

\* calls of makeInfluences over octave counts and falloffs
InfluenceSpecInit ==
    /\ InfluenceInit /\ TerrainIdle /\ ShoreIdle /\ PlaceIdle /\ ConstructIdle /\ SamplerIdle
    /\ NoiseIdle /\ WaterIdle

InfluenceSpecNext ==
    \/ CallMakeInfluences /\ UNCHANGED <<terrainVars, shoreVars, placeVars, constructVars, samplerVars, noiseVars, waterVars>>

InfluenceSpec == InfluenceSpecInit /\ [][InfluenceSpecNext]_vars

\* pairs of constructions of an archetype
ConstructSpecInit ==
    /\ ConstructIdle /\ TerrainIdle /\ ShoreIdle /\ PlaceIdle /\ InfluenceIdle /\ SamplerIdle
    /\ NoiseIdle /\ WaterIdle

ConstructSpecNext ==
    \/ \E archetype \in Archetypes, pos \in PositionChoices, mathRandom \in MathRandomChoices :
            ConstructFirst(archetype, pos, mathRandom)
            /\ UNCHANGED <<terrainVars, shoreVars, placeVars, influenceVars, samplerVars, noiseVars, waterVars>>
    \/ \E mathRandom \in MathRandomChoices :
            ConstructSecond(mathRandom)
            /\ UNCHANGED <<terrainVars, shoreVars, placeVars, influenceVars, samplerVars, noiseVars, waterVars>>

ConstructSpec == ConstructSpecInit /\ [][ConstructSpecNext]_vars

\* calls of sample and change on one GridSampler
SamplerSpecInit ==
    /\ SamplerInit /\ TerrainIdle /\ ShoreIdle /\ PlaceIdle /\ InfluenceIdle /\ ConstructIdle
    /\ NoiseIdle /\ WaterIdle

SamplerSpecNext ==
    \/ \E x \in CoordChoices, y \in CoordChoices :
            CallSample(x, y)
            /\ UNCHANGED <<terrainVars, shoreVars, placeVars, influenceVars, constructVars, noiseVars, waterVars>>
    \/ \E x \in CoordChoices, y \in CoordChoices, delta \in DeltaChoices :
            CallChange(x, y, delta)
            /\ UNCHANGED <<terrainVars, shoreVars, placeVars, influenceVars, constructVars, noiseVars, waterVars>>

SamplerSpec == SamplerSpecInit /\ [][SamplerSpecNext]_vars

\* builds of small islands up to the end of the hydraulic pass
ErosionSpecInit ==
    /\ SmallTerrainInit
    /\ ShoreIdle /\ PlaceIdle /\ InfluenceIdle /\ ConstructIdle /\ SamplerIdle
    /\ NoiseIdle /\ WaterIdle

ErosionSpecNext ==
    \/ CreateHeightMap /\ UNCHANGED <<shoreVars, placeVars, influenceVars, constructVars, samplerVars, noiseVars, waterVars>>
    \/ ErodeCoastal /\ UNCHANGED <<shoreVars, placeVars, influenceVars, constructVars, samplerVars, noiseVars, waterVars>>
    \/ CreateVolcanoes /\ UNCHANGED <<shoreVars, placeVars, influenceVars, constructVars, samplerVars, noiseVars, waterVars>>
    \/ BeginTrace /\ UNCHANGED <<shoreVars, placeVars, influenceVars, constructVars, samplerVars, noiseVars, waterVars>>
    \/ TraceIterate /\ UNCHANGED <<shoreVars, placeVars, influenceVars, constructVars, samplerVars, noiseVars, waterVars>>
    \/ EndTrace /\ UNCHANGED <<shoreVars, placeVars, influenceVars, constructVars, samplerVars, noiseVars, waterVars>>
    \/ Blur /\ UNCHANGED <<shoreVars, placeVars, influenceVars, constructVars, samplerVars, noiseVars, waterVars>>

ErosionSpec == ErosionSpecInit /\ [][ErosionSpecNext]_vars

\* the noise queries of builds of several sizes and subdivisions
NoiseSpecInit ==
    /\ NoiseInit /\ TerrainIdle /\ ShoreIdle /\ PlaceIdle /\ InfluenceIdle /\ ConstructIdle
    /\ SamplerIdle /\ WaterIdle

NoiseSpecNext ==
    \E pass \in NoisePasses,
       x \in CellChoices(GridValues(noiseQuery.size,
                                    Resolution(noiseQuery.size, noiseQuery.subdivisions))),
       y \in CellChoices(GridValues(noiseQuery.size,
                                    Resolution(noiseQuery.size, noiseQuery.subdivisions))) :
        QueryNoise(pass, x, y)
        /\ UNCHANGED <<terrainVars, shoreVars, placeVars, influenceVars, constructVars,
                       samplerVars, waterVars>>

NoiseSpec == NoiseSpecInit /\ [][NoiseSpecNext]_vars

\* a Water in a scene that renders, is resized and gains and loses meshes
WaterSpecInit ==
    /\ WaterIdle /\ TerrainIdle /\ ShoreIdle /\ PlaceIdle /\ InfluenceIdle /\ ConstructIdle
    /\ SamplerIdle /\ NoiseIdle

WaterSpecNext ==
    \/ NewWater /\ UNCHANGED <<terrainVars, shoreVars, placeVars, influenceVars, constructVars, samplerVars, noiseVars>>
    \/ DisposeWater /\ UNCHANGED <<terrainVars, shoreVars, placeVars, influenceVars, constructVars, samplerVars, noiseVars>>
    \/ RenderFrame /\ UNCHANGED <<terrainVars, shoreVars, placeVars, influenceVars, constructVars, samplerVars, noiseVars>>
    \/ ResizeEngine /\ UNCHANGED <<terrainVars, shoreVars, placeVars, influenceVars, constructVars, samplerVars, noiseVars>>
    \/ \E name \in MeshNames : AddMesh(name) /\ UNCHANGED <<terrainVars, shoreVars, placeVars, influenceVars, constructVars, samplerVars, noiseVars>>
    \/ RemoveMesh /\ UNCHANGED <<terrainVars, shoreVars, placeVars, influenceVars, constructVars, samplerVars, noiseVars>>

WaterSpec == WaterSpecInit /\ [][WaterSpecNext]_vars

\* a step of ErosionHydraulic.apply is taken: BeginTrace, TraceIterate,
\* EndTrace and Blur each count one in erodeSteps, and nothing else does
ErodeStep == pc = "erodeHydraulic" /\ erodeSteps' = erodeSteps + 1

\* apply() is synchronous code: while it runs (one of its four steps is then
\* enabled) its next step is taken
FairSpec == Spec /\ WF_erodeSteps(ErodeStep)

====
